---- MODULE Spec2Model ----
(***************************************************************************)
(* Model of vpx_lightmapper's export_vpx (vlm_export.py): the merge of a   *)
(* source VPX compound file with the bake results into a destination VPX   *)
(* file.  Streams are byte sequences (sequences of 0..255); positions are  *)
(* 0-based as in the Python code, so byte p of data d is d[p+1].           *)
(*                                                                         *)
(* The table script (the string of the CODE record) is modelled one cell   *)
(* per LINE instead of one cell per character: each cell is the code of a  *)
(* newline-terminated line (see the L_ definitions).                       *)
(***************************************************************************)
EXTENDS Integers, Sequences, FiniteSets, TLC

(***************************************************************************)
(* Bytes, little-endian scalars, strings                                   *)
(***************************************************************************)
U32(n) == <<n % 256, (n \div 256) % 256, (n \div 65536) % 256, (n \div 16777216) % 256>>

RdU32(d, p) == d[p+1] + 256 * d[p+2] + 65536 * d[p+3] + 16777216 * d[p+4]

\* signed 32-bit read (get_32)
RdI32(d, p) ==
    IF d[p+4] >= 128
    THEN (d[p+4] - 256) * 16777216 + 65536 * d[p+3] + 256 * d[p+2] + d[p+1]
    ELSE RdU32(d, p)

BoolBytes(b) == IF b THEN <<255, 255, 255, 255>> ELSE <<0, 0, 0, 0>>

I32Minus1 == <<255, 255, 255, 255>>

\* IEEE-754 single precision, little endian, of the float constants written by the exporter
F ==
    [
     p0 |-> <<0, 0, 0, 0>>,
     p1 |-> <<0, 0, 128, 63>>,
     p2 |-> <<0, 0, 0, 64>>,
     p0_3 |-> <<154, 153, 153, 62>>,
     p100 |-> <<0, 0, 200, 66>>,
     p165 |-> <<0, 0, 37, 67>>,
     p1000 |-> <<0, 0, 122, 68>>,
     m1000 |-> <<0, 0, 122, 196>>,
     m2800 |-> <<0, 0, 47, 197>> ]

RECURSIVE Zeros(_)
Zeros(n) == IF n <= 0 THEN <<>> ELSE <<0>> \o Zeros(n - 1)

RECURSIVE Concat(_)
Concat(ss) == IF ss = <<>> THEN <<>> ELSE Head(ss) \o Concat(Tail(ss))

StartsWith(s, p) == Len(s) >= Len(p) /\ SubSeq(s, 1, Len(p)) = p

\* bytes p .. p+n-1 (0-based) of d, as Python's d[p:p+n]
Slice(d, p, n) == SubSeq(d, p + 1, IF p + n > Len(d) THEN Len(d) ELSE p + n)

\* d with bytes p .. p+Len(b)-1 overwritten by b
Overwrite(d, p, b) == SubSeq(d, 1, p) \o b \o SubSeq(d, p + Len(b) + 1, Len(d))

\* d with b inserted before position p (bytearray.insert of each byte at p+i)
InsertAt(d, p, b) == SubSeq(d, 1, p) \o b \o SubSeq(d, p + 1, Len(d))

\* d without the n bytes at p
DeleteAt(d, p, n) == SubSeq(d, 1, p) \o SubSeq(d, p + n + 1, Len(d))

\* rstrip('\x00')
RECURSIVE RStripZero(_)
RStripZero(s) == IF s # <<>> /\ s[Len(s)] = 0 THEN RStripZero(SubSeq(s, 1, Len(s) - 1)) ELSE s

\* double-byte ("wide") encoding of a string of char codes below 256
RECURSIVE Wide(_)
Wide(s) == IF s = <<>> THEN <<>> ELSE <<Head(s), 0>> \o Wide(Tail(s))

RECURSIVE UnWide(_)
UnWide(b) == IF Len(b) < 2 THEN <<>> ELSE <<b[1]>> \o UnWide(SubSeq(b, 3, Len(b)))

(***************************************************************************)
(* Strings and tags of the program (ASCII codes)                           *)
(***************************************************************************)
S ==
    [
     VLMdot |-> <<86,76,77,46>>,
     VLMTimer |-> <<86,76,77,84,105,109,101,114>>,
     playfield_mesh |-> <<112,108,97,121,102,105,101,108,100,95,109,101,115,104>>,
     playfield_phys |-> <<112,108,97,121,102,105,101,108,100,95,112,104,121,115>>,
     BakeSolid |-> <<86,76,77,46,66,97,107,101,46,83,111,108,105,100>>,
     BakeActive |-> <<86,76,77,46,66,97,107,101,46,65,99,116,105,118,101>>,
     Lightmap |-> <<86,76,77,46,76,105,103,104,116,109,97,112>>,
     Light |-> <<86,76,77,46,76,105,103,104,116>>,
     Packmap |-> <<86,76,77,46,80,97,99,107,109,97,112>>,
     Visuals |-> <<86,76,77,46,86,105,115,117,97,108,115>>,
     unknown |-> <<117,110,107,110,111,119,110>>,
     PF |-> <<80,70>>,
     GateBracket |-> <<86,80,88,46,71,97,116,101,46,66,114,97,99,107,101,116,46>>,
     SpinnerBracket |-> <<86,80,88,46,83,112,105,110,110,101,114,46,66,114,97,99,107,101,116,46>>,   \* the record tags the exporter reads and writes
     png |-> <<46, 112, 110, 103>>,
     exr |-> <<46, 101, 120, 114>>,   \* f'{bakepath}Export/Nestmap {nestmap_index}'
     VisualPinball |-> <<86,105,115,117,97,108,32,80,105,110,98,97,108,108>> ]   \* the decimal text of an index below 100

T ==
    [
     NAME |-> <<78,65,77,69>>,
     REEN |-> <<82,69,69,78>>,
     CLDR |-> <<67,76,68,82>>,
     CLDW |-> <<67,76,68,87>>,
     ISTO |-> <<73,83,84,79>>,
     IMAG |-> <<73,77,65,71>>,
     SIMG |-> <<83,73,77,71>>,
     IMAB |-> <<73,77,65,66>>,
     VSBL |-> <<86,83,66,76>>,
     SVBL |-> <<83,86,66,76>>,
     RVIS |-> <<82,86,73,83>>,
     GSUP |-> <<71,83,85,80>>,
     SSUP |-> <<83,83,85,80>>,
     TVIS |-> <<84,86,73,83>>,
     FVIS |-> <<70,86,73,83>>,
     CAVI |-> <<67,65,86,73>>,
     BSVS |-> <<66,83,86,83>>,
     RIVS |-> <<82,73,86,83>>,
     SKVS |-> <<83,75,86,83>>,
     BULT |-> <<66,85,76,84>>,
     BHHI |-> <<66,72,72,73>>,
     FHEI |-> <<70,72,69,73>>,
     ENDB |-> <<69,78,68,66>>,
     SEDT |-> <<83,69,68,84>>,
     MASI |-> <<77,65,83,73>>,
     PLMA |-> <<80,76,77,65>>,
     MATE |-> <<77,65,84,69>>,
     PHMA |-> <<80,72,77,65>>,
     CODE |-> <<67,79,68,69>>,
     CUST |-> <<67,85,83,84>>,
     VCEN |-> <<86,67,69,78>>,
     TMON |-> <<84,77,79,78>>,
     TMIN |-> <<84,77,73,78>>,
     BGLS |-> <<66,71,76,83>>,
     LOCK |-> <<76,79,67,75>>,
     LAYR |-> <<76,65,89,82>>,
     LANR |-> <<76,65,78,82>>,
     LVIS |-> <<76,86,73,83>>,
     PATH |-> <<80,65,84,72>>,
     SIZE |-> <<83,73,90,69>>,
     DATA |-> <<68,65,84,65>>,
     WDTH |-> <<87,68,84,72>>,
     HGHT |-> <<72,71,72,84>>,
     JPEG |-> <<74,80,69,71>>,
     ALTV |-> <<65,76,84,86>> ]

(***************************************************************************)
(* biff_io.BIFF_writer: tagged-record builder.  A record is a 4-byte       *)
(* length (tag + payload), the 4-character tag, and the payload.           *)
(***************************************************************************)
WString(s) == U32(Len(s)) \o s

WWideString(s) == U32(2 * Len(s)) \o Wide(s)

Tagged(tag, payload) == U32(4 + Len(payload)) \o tag \o payload

TaggedU32(tag, v) == Tagged(tag, U32(v))

TaggedBool(tag, b) == Tagged(tag, BoolBytes(b))

TaggedString(tag, s) == Tagged(tag, WString(s))

TaggedWideString(tag, s) == Tagged(tag, WWideString(s))

TaggedEmpty(tag) == Tagged(tag, <<>>)

\* close(): the terminating sentinel record
EndB == Tagged(T.ENDB, <<>>)

(***************************************************************************)
(* biff_io.BIFF_reader: a cursor over a byte buffer of tagged records.     *)
(*   data : the buffer, pos : 0-based position, rs : start of the current  *)
(*   record, rem : bytes of the current record not yet consumed, tag       *)
(***************************************************************************)
BIFF_reader(d) == [data |-> d, pos |-> 0, rs |-> 0, rem |-> 0, tag |-> <<>>]

is_eof(br) == br.pos >= Len(br.data) \/ br.tag = T.ENDB

skip(br, n) == [br EXCEPT !.pos = @ + n, !.rem = @ - n]

skip_tag(br) == [br EXCEPT !.pos = @ + br.rem, !.rem = 0]

next(br) ==
    LET b1 == IF br.rem > 0 THEN skip(br, br.rem) ELSE br
        len == RdU32(b1.data, b1.pos)
    IN [b1 EXCEPT !.rs = b1.pos, !.pos = b1.pos + 8, !.rem = len - 4,
                  !.tag = Slice(b1.data, b1.pos + 4, 4)]

get_u32(br) == RdU32(br.data, br.pos)

get_32(br) == RdI32(br.data, br.pos)

get_bool(br) == Slice(br.data, br.pos, 4) # <<0, 0, 0, 0>>

\* length-prefixed string at the cursor, and the cursor after it
get_string(br) == Slice(br.data, br.pos + 4, get_u32(br))

after_string(br) == skip(br, 4 + get_u32(br))

get_wide_string(br) == UnWide(Slice(br.data, br.pos + 4, get_u32(br)))

get_str(br, n) == Slice(br.data, br.pos, n)

put_bytes(br, b) == [br EXCEPT !.data = Overwrite(@, br.pos, b), !.pos = @ + Len(b), !.rem = @ - Len(b)]

put_u32(br, v) == put_bytes(br, U32(v))

put_bool(br, b) == put_bytes(br, BoolBytes(b))

put_float(br, f) == put_bytes(br, f)

\* tag + payload of the current record, without its length prefix
get_record_data(br) == Slice(br.data, br.pos - 4, br.rem + 4)

delete_bytes(br, n) == [br EXCEPT !.data = DeleteAt(@, br.pos, n)]

\* removes the whole current record (length, tag, payload); the cursor is left where it started
delete_tag(br) ==
    [br EXCEPT !.data = DeleteAt(@, br.rs, br.pos + br.rem - br.rs), !.pos = br.rs, !.rem = 0]

\* inserts at the cursor, which ends after the inserted bytes
insert_data(br, b) == [br EXCEPT !.data = InsertAt(@, br.pos, b), !.pos = @ + Len(b)]

(***************************************************************************)
(* The scene: settings and collections read by export_vpx.                 *)
(*   e.export_mode    : "default", "hide", "remove", "remove_all"          *)
(*   e.playfield_col  : whether a playfield collection is set              *)
(*   e.bake_objs      : objects of VLM.Bake [name, vpx_object, vpx_subpart,*)
(*                      movable]                                           *)
(*   e.light_objs     : objects of VLM.Lights [name, vpx_object]           *)
(*   e.results        : objects of VLM.Result, a sequence of [name,        *)
(*                      bake_type, bake_nestmap, bake_sync_trans,          *)
(*                      bake_sync_light, is_pf_objects, hdr]               *)
(*   e.packfiles      : nestmap indices whose packed-texture file exists   *)
(***************************************************************************)
\* str.split(';')
RECURSIVE SplitAcc(_, _)
SplitAcc(s, cur) ==
    IF s = <<>> THEN <<cur>>
    ELSE IF Head(s) = 59 THEN <<cur>> \o SplitAcc(Tail(s), <<>>)
    ELSE SplitAcc(Tail(s), Append(cur, Head(s)))

Split(s) == SplitAcc(s, <<>>)

SeqToSet(s) == {s[i] : i \in 1..Len(s)}

baked_vpx_lights(e) == UNION {SeqToSet(Split(o.vpx_object)) : o \in e.light_objs}

baked_vpx_objects(e) ==
    UNION {SeqToSet(Split(o.vpx_object)) : o \in {b \in e.bake_objs : ~b.movable}}
      \cup (IF e.playfield_col THEN {S.playfield_mesh} ELSE {})

HasSubpart_AnyPart(e, name, part) == \E o \in e.bake_objs : o.vpx_object = name

HasSubpart(e, name, part) == \E o \in e.bake_objs : o.vpx_object = name /\ o.vpx_subpart = part

HasBakeObject(e, objname) == \E o \in e.bake_objs : o.name = objname

(***************************************************************************)
(* One source item (the body of the GameItem loop)                         *)
(***************************************************************************)
NPrefix == 23

\* first pass over the item: its name ('unknown' without a NAME record)
RECURSIVE FindName(_)
FindName(br) ==
    IF is_eof(br) THEN S.unknown
    ELSE LET b == next(br)
         IN IF b.tag = T.NAME THEN get_wide_string(b) ELSE FindName(skip_tag(b))

\* the if/elif chain on the tag of the current record
TagChain(s, item_type, name, is_baked, e) ==
    LET b == s.br
        t == b.tag
        base == [br |-> b, vis |-> FALSE, refl |-> FALSE, part |-> is_baked,
                 is_physics |-> s.is_physics, item_images |-> s.item_images,
                 needs_pf |-> s.needs_pf]
    IN IF t = T.NAME THEN
            IF name = S.playfield_mesh /\ e.playfield_col
            THEN [base EXCEPT !.br = put_bytes(put_bytes(skip(b, 24), <<112, 0, 104, 0>>), <<121, 0, 115, 0>>),
                              !.needs_pf = FALSE]
            ELSE base
       ELSE IF t = T.REEN THEN [base EXCEPT !.refl = TRUE]
       ELSE IF t = T.CLDR \/ t = T.CLDW THEN
            [base EXCEPT !.is_physics = get_bool(b), !.br = skip(b, 4)]
       ELSE IF t = T.ISTO THEN
            [base EXCEPT !.is_physics = s.is_physics /\ ~get_bool(b), !.br = skip(b, 4)]
       ELSE IF t = T.IMAG \/ t = T.SIMG \/ t = T.IMAB THEN
            [base EXCEPT !.item_images = Append(@, get_string(b)), !.br = after_string(b)]
       ELSE IF item_type = 0 /\ t = T.VSBL THEN [base EXCEPT !.vis = TRUE]
       ELSE IF item_type = 6 /\ t = T.VSBL THEN base
       ELSE IF item_type = 0 /\ t = T.SVBL THEN [base EXCEPT !.vis = TRUE]
       ELSE IF (item_type = 12 \/ item_type = 21) /\ t = T.RVIS THEN [base EXCEPT !.vis = TRUE]
       ELSE IF item_type = 10 /\ t = T.GSUP THEN
            IF HasBakeObject(e, S.GateBracket \o name)
            THEN [base EXCEPT !.br = put_bool(b, FALSE)] ELSE base
       ELSE IF item_type = 11 /\ t = T.SSUP THEN
            IF HasBakeObject(e, S.SpinnerBracket \o name)
            THEN [base EXCEPT !.br = put_bool(b, FALSE)] ELSE base
       ELSE IF (item_type = 19 \/ item_type = 22) /\ t = T.TVIS THEN [base EXCEPT !.vis = TRUE]
       ELSE IF item_type = 20 /\ t = T.FVIS THEN [base EXCEPT !.vis = TRUE]
       ELSE IF item_type = 5 /\ t = T.CAVI THEN
            [base EXCEPT !.vis = TRUE, !.part = HasSubpart(e, name, "Cap")]
       ELSE IF item_type = 5 /\ t = T.BSVS THEN
            [base EXCEPT !.vis = TRUE, !.part = HasSubpart(e, name, "Base")]
       ELSE IF item_type = 5 /\ t = T.RIVS THEN
            [base EXCEPT !.vis = TRUE, !.part = HasSubpart(e, name, "Ring")]
       ELSE IF item_type = 5 /\ t = T.SKVS THEN
            [base EXCEPT !.vis = TRUE, !.part = HasSubpart(e, name, "Socket")]
       ELSE base

PatchRecord_NoReflection(s, item_type, name, is_baked, is_baked_light, e) ==
    LET Hide(c, b2) ==
            [br |-> skip_tag(IF c.part /\ c.vis THEN put_bool(b2, FALSE) ELSE b2),
             is_physics |-> c.is_physics, item_images |-> c.item_images, needs_pf |-> c.needs_pf,
             lights   |-> IF item_type = 7 THEN s.lights \cup {name} ELSE s.lights,
             flashers |-> IF item_type = 20 THEN s.flashers \cup {name} ELSE s.flashers]
        Flasher(c, b1) ==
            Hide(c, IF item_type = 20 /\ is_baked_light /\ b1.tag = T.FHEI
                    THEN put_float(skip(b1, -4), F.m2800)
                    ELSE b1)
        Light(c) ==
            Flasher(c, IF item_type = 7 /\ is_baked_light
                       THEN IF c.br.tag = T.BULT THEN put_bool(c.br, TRUE)
                            ELSE IF c.br.tag = T.BHHI THEN put_float(c.br, F.m2800)
                            ELSE c.br
                       ELSE c.br)
    IN Light(TagChain(s, item_type, name, is_baked, e))

\* the light and flasher patches, the visibility patch and skip_tag
PatchRecord(s, item_type, name, is_baked, is_baked_light, e) ==
    LET Hide(c, b2) ==
            [br |-> skip_tag(IF c.part /\ (c.vis \/ c.refl) THEN put_bool(b2, FALSE) ELSE b2),
             is_physics |-> c.is_physics, item_images |-> c.item_images, needs_pf |-> c.needs_pf,
             lights   |-> IF item_type = 7 THEN s.lights \cup {name} ELSE s.lights,
             flashers |-> IF item_type = 20 THEN s.flashers \cup {name} ELSE s.flashers]
        Flasher(c, b1) ==
            Hide(c, IF item_type = 20 /\ is_baked_light /\ b1.tag = T.FHEI
                    THEN put_float(skip(b1, -4), F.m2800)
                    ELSE b1)
        Light(c) ==
            Flasher(c, IF item_type = 7 /\ is_baked_light
                       THEN IF c.br.tag = T.BULT THEN put_bool(c.br, TRUE)
                            ELSE IF c.br.tag = T.BHHI THEN put_float(c.br, F.m2800)
                            ELSE c.br
                       ELSE c.br)
    IN Light(TagChain(s, item_type, name, is_baked, e))

RECURSIVE ScanItem_AsBaked(_, _, _, _, _, _)
ScanItem_AsBaked(s, item_type, name, is_baked, is_baked_light, e) ==
    IF is_eof(s.br) THEN s
    ELSE ScanItem_AsBaked(PatchRecord([s EXCEPT !.br = next(s.br)], item_type, name, TRUE, is_baked_light, e),
                          item_type, name, is_baked, is_baked_light, e)

\* lines 149-217: the second pass over the records of the item
RECURSIVE ScanItem(_, _, _, _, _, _)
ScanItem(s, item_type, name, is_baked, is_baked_light, e) ==
    IF is_eof(s.br) THEN s
    ELSE ScanItem(PatchRecord([s EXCEPT !.br = next(s.br)], item_type, name, is_baked, is_baked_light, e),
                  item_type, name, is_baked, is_baked_light, e)

IsRemoveMode_Hide(e) == e.export_mode \in {"hide", "remove", "remove_all"}

\* lines 218 and 221: the modes that remove
IsRemoveMode(e) == e.export_mode = "remove" \/ e.export_mode = "remove_all"

\* what the loop body computes for one supported item
ProcessItem(data, e, needs_pf, lights, flashers) ==
    LET Outcome(name, is_baked, s, remove) ==
            [data |-> s.br.data, name |-> name, remove |-> remove,
             as_removed |-> remove \/ (IsRemoveMode(e) /\ is_baked),
             item_images |-> s.item_images, needs_pf |-> s.needs_pf,
             lights |-> s.lights, flashers |-> s.flashers, is_baked |-> is_baked]
        Scanned(name, is_baked, s) ==
            Outcome(name, is_baked, s,
                    (IsRemoveMode(e) /\ is_baked /\ ~s.is_physics)
                      \/ StartsWith(name, S.VLMdot) \/ name = S.VLMTimer)
        Baked(r0, name, is_baked) ==
            Scanned(name, is_baked,
                    ScanItem([br |-> skip(r0, 4), is_physics |-> TRUE, item_images |-> <<>>,
                              needs_pf |-> needs_pf, lights |-> lights, flashers |-> flashers],
                             get_32(r0), name, is_baked, name \in baked_vpx_lights(e), e))
        Named(r0, name) == Baked(r0, name, name \in baked_vpx_objects(e))
    IN Named(BIFF_reader(data), FindName(skip(BIFF_reader(data), 4)))

IsSupportedType_NonNegative(data) == ~(get_32(BIFF_reader(data)) < 0)

\* line 127
IsSupportedType(data) == ~(get_32(BIFF_reader(data)) < 0 \/ get_32(BIFF_reader(data)) >= NPrefix)


(***************************************************************************)
(* Synthesized items: the sync timer and one primitive per bake result     *)
(***************************************************************************)
SyncTimerItem ==
    U32(2) \o Tagged(T.VCEN, F.p0 \o F.p0) \o TaggedBool(T.TMON, TRUE) \o Tagged(T.TMIN, I32Minus1)
      \o TaggedWideString(T.NAME, S.VLMTimer) \o TaggedBool(T.BGLS, FALSE)
      \o TaggedBool(T.LOCK, TRUE) \o TaggedU32(T.LAYR, 0) \o TaggedString(T.LANR, S.Visuals)
      \o TaggedBool(T.LVIS, TRUE) \o EndB

\* export_name: '.', ' ' and '-' become '_'
RECURSIVE export_name(_)
export_name(n) ==
    IF n = <<>> THEN <<>>
    ELSE <<IF Head(n) \in {46, 32, 45} THEN 95 ELSE Head(n)>> \o export_name(Tail(n))

\* lexicographic order of strings (Python str comparison)
RECURSIVE LexLess(_, _)
LexLess(a, b) ==
    IF b = <<>> THEN FALSE
    ELSE IF a = <<>> THEN TRUE
    ELSE IF Head(a) # Head(b) THEN Head(a) < Head(b)
    ELSE LexLess(Tail(a), Tail(b))

\* sort key f'{bake_type == "lightmap"}-{name}': "False-.." sorts before "True-.."
KeyLess(a, b) ==
    IF (a.bake_type = "lightmap") # (b.bake_type = "lightmap")
    THEN b.bake_type = "lightmap"
    ELSE LexLess(a.name, b.name)

RECURSIVE InsertSorted(_, _)
InsertSorted(s, x) ==
    IF s = <<>> THEN <<x>>
    ELSE IF KeyLess(x, Head(s)) THEN <<x>> \o s
    ELSE <<Head(s)>> \o InsertSorted(Tail(s), x)

SortedResults_FirstOnly(s) == [i \in 1..Len(s) |-> s[1]]

\* sorted(): stable, so an element goes after the elements with an equal key
RECURSIVE SortedResults(_)
SortedResults(s) ==
    IF s = <<>> THEN <<>>
    ELSE InsertSorted(SortedResults(SubSeq(s, 1, Len(s) - 1)), s[Len(s)])

Digit(n) == <<48 + n>>

PackmapName(n) == S.Packmap \o Digit(n)

\* zlib.compress: a two-byte header followed by the deflated stream (kept as the stored bytes)
Compress(b) == <<120, 156>> \o b

\* the 8 floats (x, -y, z, nx, -ny, nz, u, 1-v) of a loop; a loop is given by the code of its
\* attribute tuple
VertexBytes(v) == <<0, 0, v, 64>> \o F.p0 \o F.p0 \o F.p0 \o F.p0 \o F.p1 \o F.p0 \o F.p1

IndexOf(seq, x) == CHOOSE i \in 1..Len(seq) : seq[i] = x

RECURSIVE DedupLoops_NoDedup(_, _)
DedupLoops_NoDedup(loops, acc) ==
    IF loops = <<>> THEN acc
    ELSE DedupLoops_NoDedup(Tail(loops), [vertices |-> Append(acc.vertices, Head(loops)),
                                          indices  |-> Append(acc.indices, Len(acc.vertices))])

\* vertex deduplication over the reversed loops of the triangles; acc = [vertices, indices]
RECURSIVE DedupLoops(_, _)
DedupLoops(loops, acc) ==
    IF loops = <<>> THEN acc
    ELSE LET v == Head(loops)
         IN IF v \in SeqToSet(acc.vertices)
            THEN DedupLoops(Tail(loops), [acc EXCEPT !.indices = Append(@, IndexOf(acc.vertices, v) - 1)])
            ELSE DedupLoops(Tail(loops), [vertices |-> Append(acc.vertices, v),
                                          indices  |-> Append(acc.indices, Len(acc.vertices))])

Reverse(s) == [i \in 1..Len(s) |-> s[Len(s) + 1 - i]]

RECURSIVE MeshOf(_, _)
MeshOf(polys, acc) ==
    IF polys = <<>> THEN acc
    ELSE IF Len(Head(polys)) # 3 THEN MeshOf(Tail(polys), acc)
    ELSE MeshOf(Tail(polys), DedupLoops(Reverse(Head(polys)), acc))

RECURSIVE PackVertices(_)
PackVertices(vs) == IF vs = <<>> THEN <<>> ELSE VertexBytes(Head(vs)) \o PackVertices(Tail(vs))

U16(n) == <<n % 256, (n \div 256) % 256>>

RECURSIVE PackIndices(_, _)
PackIndices(is, wide) ==
    IF is = <<>> THEN <<>>
    ELSE (IF wide THEN U32(Head(is)) ELSE U16(Head(is))) \o PackIndices(Tail(is), wide)

IndexWidthLimit == 65535

PackedIndices_WideAtLimit(indices, n_vertices) ==
    Compress(PackIndices(indices, n_vertices >= IndexWidthLimit))

\* lines 342-347: the index buffer, 32-bit wide above the limit and 16-bit wide otherwise
PackedIndices(indices, n_vertices) == Compress(PackIndices(indices, n_vertices > IndexWidthLimit))

\* lines 335-349: the records M3VN, M3CY, M3CX, M3FN, M3CJ, M3CI of a mesh
MeshRecords(mesh) ==
    LET Buffers(cv, ci) ==
            TaggedU32(<<77,51,86,78>>, Len(mesh.vertices))
              \o TaggedU32(<<77,51,67,89>>, Len(cv)) \o Tagged(<<77,51,67,88>>, cv)
              \o TaggedU32(<<77,51,70,78>>, Len(mesh.indices))
              \o TaggedU32(<<77,51,67,74>>, Len(ci)) \o Tagged(<<77,51,67,73>>, ci)
    IN Buffers(Compress(PackVertices(mesh.vertices)), PackedIndices(mesh.indices, Len(mesh.vertices)))

PaddedVector(tag, v) == Tagged(tag, v \o F.p0)

BakeItem(obj, e) ==
    LET is_light  == obj.bake_type = "lightmap"
        is_active == obj.bake_type = "active"
        is_static == obj.bake_type = "static"
        is_playfield == e.playfield_col /\ ~is_light /\ obj.is_pf_objects
    IN U32(19) \o PaddedVector(<<86,80,79,83>>, obj.vpos) \o PaddedVector(<<86,83,73,90>>, obj.vsiz)
       \o Tagged(<<82,84,86,48>>, SubSeq(obj.rot, 1, 4)) \o Tagged(<<82,84,86,49>>, SubSeq(obj.rot, 5, 8))
       \o Tagged(<<82,84,86,50>>, SubSeq(obj.rot, 9, 12))
       \o Tagged(<<82,84,86,51>>, F.p0) \o Tagged(<<82,84,86,52>>, F.p0) \o Tagged(<<82,84,86,53>>, F.p0)
       \o Tagged(<<82,84,86,54>>, F.p0) \o Tagged(<<82,84,86,55>>, F.p0) \o Tagged(<<82,84,86,56>>, F.p0)
       \o TaggedString(T.IMAG, PackmapName(obj.bake_nestmap))
       \o TaggedString(<<78,82,77,65>>, <<>>)
       \o TaggedU32(<<83,73,68,83>>, 4)
       \o TaggedWideString(T.NAME, IF is_playfield THEN S.playfield_mesh ELSE export_name(obj.name))
       \o TaggedString(<<77,65,84,82>>, IF is_light THEN S.Lightmap ELSE IF is_active THEN S.BakeActive ELSE S.BakeSolid)
       \o TaggedU32(<<83,67,79,76>>, 16777215)
       \o TaggedBool(T.TVIS, TRUE) \o TaggedBool(<<68,84,88,73>>, FALSE) \o TaggedBool(<<72,84,69,86>>, FALSE)
       \o Tagged(<<84,72,82,83>>, F.p2) \o Tagged(<<69,76,65,83>>, F.p0_3) \o Tagged(<<69,76,70,79>>, F.p0)
       \o Tagged(<<82,70,67,84>>, F.p0) \o Tagged(<<82,83,67,84>>, F.p0) \o Tagged(<<69,70,85,73>>, F.p0)
       \o Tagged(<<67,79,82,70>>, F.p0)
       \o TaggedBool(T.CLDR, FALSE) \o TaggedBool(T.ISTO, TRUE) \o TaggedBool(<<85,51,68,77>>, TRUE)
       \o TaggedBool(<<83,84,82,69>>, is_static)
       \o TaggedU32(<<68,73,76,73>>, 255) \o Tagged(<<68,73,76,66>>, F.p1)
       \o TaggedBool(T.REEN, ~is_playfield /\ e.enable_vpx_reflection)
       \o TaggedBool(<<69,66,70,67>>, FALSE) \o TaggedString(<<77,65,80,72>>, <<>>)
       \o TaggedBool(<<79,86,80,72>>, FALSE) \o TaggedBool(<<68,73,80,84>>, FALSE)
       \o TaggedBool(<<79,83,78,77>>, FALSE)
       \o TaggedString(<<77,51,68,78>>, S.VLMdot \o obj.name)
       \o MeshRecords(MeshOf(obj.polys, [vertices |-> <<>>, indices |-> <<>>]))
       \o Tagged(<<80,73,68,66>>, IF is_playfield THEN F.p0 ELSE IF is_light THEN F.m1000 ELSE F.p1000)
       \o TaggedBool(<<65,68,68,66>>, is_light) \o Tagged(<<70,65,76,80>>, F.p100)
       \o TaggedU32(<<67,79,76,82>>, 16777215)
       \o TaggedBool(T.LOCK, TRUE) \o TaggedBool(T.LVIS, TRUE) \o TaggedU32(T.LAYR, 0)
       \o TaggedString(T.LANR, S.Visuals) \o EndB

IsPlayfieldBake(obj, e) == e.playfield_col /\ obj.bake_type # "lightmap" /\ obj.is_pf_objects

(***************************************************************************)
(* Images: the name of a source image and the packmap image stream         *)
(***************************************************************************)
RECURSIVE ImageName(_)
ImageName(br) ==
    IF is_eof(br) THEN S.unknown
    ELSE LET b == next(br)
         IN IF b.tag = T.NAME THEN get_string(b) ELSE ImageName(skip_tag(b))

\* the playfield image named by the IMAG record of the source GameData (<<>> when there is none)
RECURSIVE PlayfieldImageOf(_)
PlayfieldImageOf(br) ==
    IF is_eof(br) THEN <<>>
    ELSE LET b == next(br)
         IN IF b.tag = T.IMAG THEN <<get_string(b)>> ELSE PlayfieldImageOf(skip_tag(b))

NestmapBase(n) == <<78>> \o Digit(n)

NestmapObjects(e, n) == {i \in 1..Len(e.results) : e.results[i].bake_nestmap = n}

NestmapPath(e, n) ==
    NestmapBase(n) \o (IF \E i \in NestmapObjects(e, n) : e.results[i].hdr THEN S.exr ELSE S.png)

\* the bytes of a packed-texture file
FileBytes(path) == <<137, path[2], path[Len(path)]>>

PackmapImage(e, n) ==
    LET path == NestmapPath(e, n)
        img_data == FileBytes(path)
        img == TaggedString(T.NAME, PackmapName(n)) \o TaggedString(T.PATH, path)
                 \o TaggedU32(T.SIZE, Len(img_data)) \o Tagged(T.DATA, img_data) \o EndB
        dim == IF (NestmapBase(n) \o S.png) \in e.packfiles THEN 2 ELSE 0
    IN TaggedString(T.NAME, PackmapName(n)) \o TaggedString(T.PATH, path)
         \o TaggedU32(T.WDTH, dim) \o TaggedU32(T.HGHT, dim) \o TaggedEmpty(T.JPEG)
         \o img \o Tagged(T.ALTV, F.p165) \o EndB


(***************************************************************************)
(* The table script.  One cell per line: the code of the line.             *)
(*   fixed lines have the codes below; a managed statement, a commented    *)
(*   managed statement and the helper lines carry their arguments.         *)
(*   A reference (elem_ref) is the index of its name in RefNames.          *)
(***************************************************************************)
L ==
    [
     Empty |-> 1,   \* ""
     SubTimer |-> 2,   \* "Sub VLMTimer_Timer"
     EndSub |-> 3,   \* "End Sub"
     SubLampz |-> 4,   \* "Sub VLMLampzHelper"
     SubMovable |-> 5,   \* "Sub VLMMovableHelper"
     User1 |-> 40,   \* a user-authored line
     User2 |-> 41 ]   \* another user-authored line


\* the generated header and helper routines, line by line (lines 594-597 and 602-627)
HeaderLines == <<6, 7, 8, 9>>

HelperLines ==
    <<10, 11, 12, 13, 14, 15, 16, L.Empty,
      17, 18, 19, 20, 21, 13, 22, 23, 15, L.EndSub, L.Empty,
      24, 25, 26, 27, 28, 29, 30, 31, L.EndSub, L.Empty>>

\* names that can be referenced from the script
RefNames == << <<76,49>>, <<76,50>>, <<70,49>>, <<76,77,49>>, <<76,77,50>>, <<77,86,49>>, <<66,75,49>>,
               <<76,77,95,49>>, <<80,70>> >>

NRef == Len(RefNames) + 1

\* elem_ref: the name cut to 31 characters, wrapped in GetElementByName("..") when it holds a
\* space or a dot; as a code, the index of the name (0 when the name is not in RefNames)
elem_ref(name) ==
    LET n == IF Len(name) > 31 THEN SubSeq(name, 1, 31) ELSE name
    IN IF \E i \in 1..Len(RefNames) : RefNames[i] = n
       THEN CHOOSE i \in 1..Len(RefNames) : RefNames[i] = n
       ELSE 0

\* intensity texts: 0 is "100.0" (the text of 100 * brightness), 1 is "100", 2 is "50"
I_Computed == 0

\* "\tUpdateLightMapFromLight v, o, i, s" (mode 0) and "\tUpdateLightMapFromFlasher .." (mode 1)
L_Upd(mode, v, o, it, sc) == 1000 + ((((mode * NRef + v) * NRef + o) * 3 + it) * 2 + (IF sc THEN 1 ELSE 0))

IsUpd(l) == l >= 1000 /\ l < 2000

UpdSync(l)      == ((l - 1000) % 2) = 1
UpdIntensity(l) == ((l - 1000) \div 2) % 3
UpdObj(l)       == ((l - 1000) \div 6) % NRef
UpdVpx(l)       == ((l - 1000) \div (6 * NRef)) % NRef
UpdMode(l)      == (l - 1000) \div (6 * NRef * NRef)

L_Visible(o) == 2000 + o   \* "\t{o}.Visible = False"
L_Lampz(o)   == 3000 + o   \* "\tLampz.Callback(0) = "UpdateLightMap {o}, 100, ""
L_RotZ(o)    == 4000 + o   \* "\t{o}.RotZ = 0"
L_Comment(l) == 10000 + l  \* "  ' {line_stripped}"

\* the regular expressions of lines 555-556 need an intensity made of digits only
MatchesUpd(l) == IsUpd(l) /\ UpdIntensity(l) # I_Computed

push_update(mode, vpx_ref, obj_ref, it, sync_color) ==
    IF mode = 2 THEN L_Visible(obj_ref) ELSE L_Upd(mode, vpx_ref, obj_ref, it, sync_color)

\* sorted(..., key=bake_sync_light) and sorted(..., key=bake_sync_trans)
RECURSIVE InsertByLight(_, _)
InsertByLight(s, x) ==
    IF s = <<>> THEN <<x>>
    ELSE IF LexLess(x.bake_sync_light, Head(s).bake_sync_light) THEN <<x>> \o s
    ELSE <<Head(s)>> \o InsertByLight(Tail(s), x)

RECURSIVE SortByLight(_)
SortByLight(s) == IF s = <<>> THEN <<>> ELSE InsertByLight(SortByLight(SubSeq(s, 1, Len(s) - 1)), s[Len(s)])

RECURSIVE InsertByTrans(_, _)
InsertByTrans(s, x) ==
    IF s = <<>> THEN <<x>>
    ELSE IF LexLess(x.bake_sync_trans, Head(s).bake_sync_trans) THEN <<x>> \o s
    ELSE <<Head(s)>> \o InsertByTrans(Tail(s), x)

RECURSIVE SortByTrans(_)
SortByTrans(s) == IF s = <<>> THEN <<>> ELSE InsertByTrans(SortByTrans(SubSeq(s, 1, Len(s) - 1)), s[Len(s)])

RECURSIVE SelectSeq2(_, _)
SelectSeq2(s, keep) ==
    IF s = <<>> THEN <<>>
    ELSE (IF Head(s) \in keep THEN <<Head(s)>> ELSE <<>>) \o SelectSeq2(Tail(s), keep)

Lightmaps(e) == SortByLight(SelectSeq2(e.results, {o \in SeqToSet(e.results) : o.bake_type = "lightmap"}))

Movables(e) == SortByTrans(SelectSeq2(e.results, {o \in SeqToSet(e.results) : o.bake_sync_trans # <<>>}))

\* the update of one lightmap: <<vpx_ref, mode, obj_ref, sync_color>> (the brightness is always 1.0)
UpdateOf(obj, e, table_lights, table_flashers) ==
    LET inChildren == \E c \in e.light_children : c.name = obj.bake_sync_light
        inObjects  == \E o \in e.light_objs : o.name = obj.bake_sync_light
        src == IF inChildren THEN CHOOSE c \in e.light_children : c.name = obj.bake_sync_light
               ELSE CHOOSE o \in e.light_objs : o.name = obj.bake_sync_light
        vpx_name == IF inChildren \/ inObjects THEN Head(Split(src.vpx_object)) ELSE <<>>
        sync_color == (inChildren \/ inObjects) /\ src.is_rgb
        me == elem_ref(export_name(obj.name))
    IN IF vpx_name = <<>> THEN <<0, 2, me, FALSE>>
       ELSE IF vpx_name \in table_lights THEN <<elem_ref(vpx_name), 0, me, sync_color>>
       ELSE IF vpx_name \in table_flashers THEN <<elem_ref(vpx_name), 1, me, sync_color>>
       ELSE <<0, 2, me, FALSE>>

RECURSIVE UpdatesOf(_, _, _, _)
UpdatesOf(objs, e, table_lights, table_flashers) ==
    IF objs = <<>> THEN <<>>
    ELSE (IF Head(objs).bake_type = "lightmap" /\ Head(objs).bake_sync_trans = <<>>
          THEN <<UpdateOf(Head(objs), e, table_lights, table_flashers)>> ELSE <<>>)
         \o UpdatesOf(Tail(objs), e, table_lights, table_flashers)

RECURSIVE PushAll(_)
PushAll(updates) ==
    IF updates = <<>> THEN <<>>
    ELSE <<push_update(Head(updates)[2], Head(updates)[1], Head(updates)[3], I_Computed, Head(updates)[4])>>
         \o PushAll(Tail(updates))

RECURSIVE LampzLines(_)
LampzLines(objs) ==
    IF objs = <<>> THEN <<>> ELSE <<L_Lampz(elem_ref(export_name(Head(objs).name)))>> \o LampzLines(Tail(objs))

RECURSIVE RotZLines(_)
RotZLines(objs) ==
    IF objs = <<>> THEN <<>> ELSE <<L_RotZ(elem_ref(export_name(Head(objs).name)))>> \o RotZLines(Tail(objs))

RemoveFirst(s, x) ==
    LET i == CHOOSE k \in 1..Len(s) : s[k] = x /\ \A j \in 1..(k - 1) : s[j] # x
    IN SubSeq(s, 1, i - 1) \o SubSeq(s, i + 1, Len(s))

\* one line of the loop over code.splitlines(); st = [code, in_block, updates, sync_updated,
\* lampz_updated, move_updated, ok]
ScriptLine(st, line, e) ==
    IF st.in_block = 0 /\ line = L.SubTimer
    THEN [st EXCEPT !.sync_updated = TRUE, !.in_block = 1]
    ELSE IF st.in_block = 1 THEN
        IF line = L.EndSub
        THEN [st EXCEPT !.in_block = 0, !.code = @ \o PushAll(st.updates) \o <<L.EndSub>>]
        ELSE IF MatchesUpd(line) /\ UpdVpx(line) # 0
             THEN IF \E i \in 1..Len(st.updates) : st.updates[i][1] = UpdVpx(line)
                  THEN \* math.abs does not exist: AttributeError
                       [st EXCEPT !.ok = FALSE,
                                  !.updates = RemoveFirst(@, st.updates[CHOOSE i \in 1..Len(st.updates) :
                                        st.updates[i][1] = UpdVpx(line)
                                        /\ \A j \in 1..(i - 1) : st.updates[j][1] # UpdVpx(line)])]
                  ELSE [st EXCEPT !.code = Append(@, L_Comment(line))]
             ELSE [st EXCEPT !.code = Append(@, line)]
    ELSE IF st.in_block = 0 /\ line = L.SubLampz
    THEN [st EXCEPT !.lampz_updated = TRUE, !.in_block = 3]
    ELSE IF st.in_block = 3 THEN
        IF line = L.EndSub
        THEN [st EXCEPT !.in_block = 0, !.code = @ \o LampzLines(Lightmaps(e)) \o <<L.EndSub>>]
        ELSE st
    ELSE IF st.in_block = 0 /\ line = L.SubMovable
    THEN [st EXCEPT !.lampz_updated = TRUE, !.in_block = 4]
    ELSE IF st.in_block = 4 THEN
        IF line = L.EndSub
        THEN [st EXCEPT !.in_block = 0, !.code = @ \o RotZLines(Movables(e)) \o <<L.EndSub>>]
        ELSE st
    ELSE st

RECURSIVE ScriptLoop(_, _, _)
ScriptLoop(st, lines, e) ==
    IF lines = <<>> \/ ~st.ok THEN st ELSE ScriptLoop(ScriptLine(st, Head(lines), e), Tail(lines), e)

\* the patched script, and whether the patch ran to its end
PatchScript(code, e, table_lights, table_flashers) ==
    LET Movable(st, c2) ==
            [code |-> IF ~st.move_updated
                      THEN c2 \o <<L.Empty, L.Empty, L.SubMovable>> \o RotZLines(Movables(e)) \o <<L.EndSub>>
                      ELSE c2,
             ok |-> st.ok]
        Lampz(st, c1) ==
            Movable(st, IF ~st.lampz_updated
                        THEN c1 \o <<L.Empty, L.Empty, L.SubLampz>> \o LampzLines(Lightmaps(e)) \o <<L.EndSub>>
                        ELSE c1)
        Sync(st) ==
            Lampz(st, IF ~st.sync_updated
                      THEN st.code \o <<L.Empty, L.Empty>> \o HeaderLines \o <<L.SubTimer>>
                             \o PushAll(st.updates) \o <<L.EndSub, L.Empty>> \o HelperLines
                      ELSE st.code)
    IN Sync(ScriptLoop([code |-> code, in_block |-> 0,
                        updates |-> UpdatesOf(e.results, e, table_lights, table_flashers),
                        sync_updated |-> FALSE, lampz_updated |-> FALSE, move_updated |-> FALSE,
                        ok |-> TRUE], code, e))


(***************************************************************************)
(* GameData: the scan that patches counts, playfield records and script    *)
(* and caches the table positions, then the splice of the missing          *)
(* materials.  An unbound local variable is -1.                            *)
(***************************************************************************)
MateSize == 76
PhmaSize == 48
MatNameSize == 32

\* a record of the visual material table: the padded name and 11 fields
MateRecord(name, active) ==
    name \o Zeros(MatNameSize - Len(name)) \o U32(8355711) \o U32(0) \o U32(0) \o F.p0
      \o BoolBytes(FALSE) \o F.p0 \o U32(0) \o F.p0 \o U32(12) \o F.p1 \o U32(active)

\* a record of the physics material table: the padded name and 4 floats
PhmaRecord(name) == name \o Zeros(MatNameSize - Len(name)) \o F.p0 \o F.p0 \o F.p0 \o F.p0

MaterialNames(b, n) == {RStripZero(get_str(skip(b, MateSize * i), MatNameSize)) : i \in 0..(n - 1)}

\* the item count written to the SEDT record (line 459); c holds the values computed before the
\* scan: n_images, n_game_items, n_read_item, new_playfield_image (<<>> for None, else <<name>>),
\* e, table_lights, table_flashers
DeclaredItems_Read(c) == c.n_read_item

DeclaredItems(c) == c.n_game_items

\* the body of the scan loop for the record the reader stands on
GameDataRecord(g, c) ==
    LET b == g.br
        t == b.tag
        Script(code, p) ==
            IF p.ok THEN [g EXCEPT !.br = insert_data(delete_bytes(b, Len(code) + 4), WString(p.code))]
            ELSE [g EXCEPT !.ok = FALSE]
        Code(code) == Script(code, PatchScript(code, c.e, c.table_lights, c.table_flashers))
        Skip(g1) == [g1 EXCEPT !.br = skip_tag(g1.br)]
        g1 == IF t = T.SIMG THEN [g EXCEPT !.br = put_u32(b, c.n_images)]
              ELSE IF t = T.SEDT THEN [g EXCEPT !.br = put_u32(b, DeclaredItems(c))]
              ELSE IF t = T.MASI THEN
                   [g EXCEPT !.masi_pos = b.pos, !.n_materials = get_u32(b), !.br = skip(b, 4)]
              ELSE IF t = T.IMAG THEN
                   IF c.new_playfield_image # <<>>
                   THEN [g EXCEPT !.br = insert_data(delete_tag(b),
                                            Tagged(T.IMAG, WString(c.new_playfield_image[1])))]
                   ELSE g
              ELSE IF t = T.PLMA THEN
                   [g EXCEPT !.br = insert_data(delete_tag(b), Tagged(T.PLMA, WString(S.BakeActive)))]
              ELSE IF t = T.MATE THEN
                   IF g.n_materials < 0 THEN [g EXCEPT !.ok = FALSE]
                   ELSE LET names == MaterialNames(b, g.n_materials)
                        IN [g EXCEPT !.mate_pos = b.pos,
                                     !.has_solid_bake_mat = @ \/ S.BakeSolid \in names,
                                     !.has_active_bake_mat = @ \/ S.BakeActive \in names,
                                     !.has_light_mat = @ \/ S.Light \in names,
                                     !.br = skip(b, MateSize * g.n_materials)]
              ELSE IF t = T.PHMA THEN [g EXCEPT !.phma_pos = b.pos]
              ELSE g
    IN IF t = T.CODE THEN Code(get_string(b)) ELSE Skip(g1)

RECURSIVE ScanGameData(_, _)
ScanGameData(g, c) ==
    IF ~g.ok \/ is_eof(g.br) THEN g
    ELSE ScanGameData(GameDataRecord([g EXCEPT !.br = next(g.br)], c), c)

\* the records of the materials to add to the visual (wr) and physics (pr) tables
MissingMate(g) ==
    (IF ~g.has_solid_bake_mat THEN MateRecord(S.BakeSolid, 0) ELSE <<>>)
      \o (IF ~g.has_active_bake_mat THEN MateRecord(S.BakeActive, 1) ELSE <<>>)
      \o (IF ~g.has_light_mat THEN MateRecord(S.Lightmap, 1) ELSE <<>>)

MissingPhma(g) ==
    (IF ~g.has_solid_bake_mat THEN PhmaRecord(S.BakeSolid) ELSE <<>>)
      \o (IF ~g.has_active_bake_mat THEN PhmaRecord(S.BakeActive) ELSE <<>>)
      \o (IF ~g.has_light_mat THEN PhmaRecord(S.Lightmap) ELSE <<>>)

n_material_to_add(g) ==
    (IF ~g.has_solid_bake_mat THEN 1 ELSE 0) + (IF ~g.has_active_bake_mat THEN 1 ELSE 0)
      + (IF ~g.has_light_mat THEN 1 ELSE 0)

ShiftedPhma_NoShift(phma_pos, mate_pos, n) == phma_pos

\* the position of the physics table once the visual records are inserted (lines 711-712)
ShiftedPhma(phma_pos, mate_pos, n) == IF phma_pos > mate_pos THEN phma_pos + n ELSE phma_pos

\* lines 705-717 on the buffer left by the scan
SpliceMaterials(g) ==
    LET n  == g.n_materials + n_material_to_add(g)
        wr == MissingMate(g)
        pr == MissingPhma(g)
        d1 == Overwrite(g.br.data, g.masi_pos, U32(n))
        d2 == Overwrite(d1, g.mate_pos - 8, U32(n * MateSize + 4))
        d3 == InsertAt(d2, g.mate_pos, wr)
        phma_pos == ShiftedPhma(g.phma_pos, g.mate_pos, Len(wr))
        d4 == Overwrite(d3, phma_pos - 8, U32(n * PhmaSize + 4))
    IN InsertAt(d4, phma_pos, pr)

\* the GameData branch of the copy loop: [ok, data, g] where g is the state left by the scan
PatchGameData(data, c) ==
    LET Splice(g) ==
            IF g.ok /\ g.masi_pos >= 0 /\ g.mate_pos >= 0 /\ g.phma_pos >= 0
            THEN [ok |-> TRUE, data |-> SpliceMaterials(g), g |-> g]
            ELSE [ok |-> FALSE, data |-> data, g |-> g]
    IN Splice(ScanGameData([br |-> BIFF_reader(data), masi_pos |-> -1, n_materials |-> -1,
                            mate_pos |-> -1, phma_pos |-> -1, has_solid_bake_mat |-> FALSE,
                            has_active_bake_mat |-> FALSE, has_light_mat |-> FALSE, ok |-> TRUE], c))

(***************************************************************************)
(* The bytes fed to the hash for a stream                                  *)
(***************************************************************************)
RECURSIVE HashBiff(_)
HashBiff(br) ==
    IF is_eof(br) THEN <<>>
    ELSE LET b == next(br)
         IN IF b.tag = T.CODE
            THEN T.CODE \o Slice(b.data, b.pos + 4, get_u32(b)) \o HashBiff(skip(b, 4 + get_u32(b)))
            ELSE get_record_data(b) \o HashBiff(skip_tag(b))

HashedBytes_Raw(data, mode) == data

HashedBytes(data, mode) == IF mode = 0 THEN data ELSE HashBiff(BIFF_reader(data))

\* the names of the CUST records of the CustomInfoTags stream, in order
RECURSIVE CustomNames(_)
CustomNames(br) ==
    IF is_eof(br) THEN <<>>
    ELSE LET b == next(br)
         IN IF b.tag = T.CUST THEN <<get_string(b)>> \o CustomNames(after_string(b))
            ELSE CustomNames(skip_tag(b))


(***************************************************************************)
(* Stream paths                                                            *)
(***************************************************************************)
P_GameStg   == <<71,97,109,101,83,116,103,47>>
P_TableInfo == <<84,97,98,108,101,73,110,102,111,47>>
\* the names of the streams and stream families
N ==
    [
     GameItem |-> <<71,97,109,101,73,116,101,109>>,
     Image |-> <<73,109,97,103,101>>,
     MAC |-> <<77,65,67>>,
     GameData |-> <<71,97,109,101,68,97,116,97>>,
     Version |-> <<86,101,114,115,105,111,110>>,
     CustomInfoTags |-> <<67,117,115,116,111,109,73,110,102,111,84,97,103,115>>,
     Sound |-> <<83,111,117,110,100>>,
     Font |-> <<70,111,110,116>>,
     Collection |-> <<67,111,108,108,101,99,116,105,111,110>>,
     TableName |-> <<84,97,98,108,101,78,97,109,101>>,
     AuthorName |-> <<65,117,116,104,111,114,78,97,109,101>>,
     TableVersion |-> <<84,97,98,108,101,86,101,114,115,105,111,110>>,
     ReleaseDate |-> <<82,101,108,101,97,115,101,68,97,116,101>>,
     AuthorEmail |-> <<65,117,116,104,111,114,69,109,97,105,108>>,
     AuthorWebSite |-> <<65,117,116,104,111,114,87,101,98,83,105,116,101>>,
     TableBlurb |-> <<84,97,98,108,101,66,108,117,114,98>>,
     TableDescription |-> <<84,97,98,108,101,68,101,115,99,114,105,112,116,105,111,110>>,
     TableRules |-> <<84,97,98,108,101,82,117,108,101,115>>,
     TableSaveDate |-> <<84,97,98,108,101,83,97,118,101,68,97,116,101>>,
     TableSaveRev |-> <<84,97,98,108,101,83,97,118,101,82,101,118>>,
     Screenshot |-> <<83,99,114,101,101,110,115,104,111,116>> ]

Dec(n) == IF n < 10 THEN Digit(n) ELSE Digit(n \div 10) \o Digit(n % 10)

GameItemPath(n) == P_GameStg \o N.GameItem \o Dec(n)
ImagePath(n)    == P_GameStg \o N.Image \o Dec(n)
GameDataPath    == P_GameStg \o N.GameData
VersionPath     == P_GameStg \o N.Version
CustomInfoPath  == P_GameStg \o N.CustomInfoTags
MACPath         == P_GameStg \o N.MAC

\* the path probed for the stream of a custom info tag: f'TableInfo/f{cust_name}'
CustomSrcPath(cust_name) == P_TableInfo \o <<102>> \o cust_name
CustomDstPath(cust_name) == P_TableInfo \o cust_name

exists(storage, path) == path \in DOMAIN storage

\* append_structure: the indexed streams of a category present in the source
RECURSIVE append_structure(_, _, _, _, _)
append_structure(storage, src_path, mode, hashed, index) ==
    IF exists(storage, src_path \o Dec(index))
    THEN <<[path |-> src_path \o Dec(index), mode |-> mode, hashed |-> hashed]>>
           \o append_structure(storage, src_path, mode, hashed, index + 1)
    ELSE <<>>

FixedStructure ==
    << [path |-> VersionPath, mode |-> 0, hashed |-> TRUE],
       [path |-> P_TableInfo \o N.TableName, mode |-> 0, hashed |-> TRUE],
       [path |-> P_TableInfo \o N.AuthorName, mode |-> 0, hashed |-> TRUE],
       [path |-> P_TableInfo \o N.TableVersion, mode |-> 0, hashed |-> TRUE],
       [path |-> P_TableInfo \o N.ReleaseDate, mode |-> 0, hashed |-> TRUE],
       [path |-> P_TableInfo \o N.AuthorEmail, mode |-> 0, hashed |-> TRUE],
       [path |-> P_TableInfo \o N.AuthorWebSite, mode |-> 0, hashed |-> TRUE],
       [path |-> P_TableInfo \o N.TableBlurb, mode |-> 0, hashed |-> TRUE],
       [path |-> P_TableInfo \o N.TableDescription, mode |-> 0, hashed |-> TRUE],
       [path |-> P_TableInfo \o N.TableRules, mode |-> 0, hashed |-> TRUE],
       [path |-> P_TableInfo \o N.TableSaveDate, mode |-> 0, hashed |-> FALSE],
       [path |-> P_TableInfo \o N.TableSaveRev, mode |-> 0, hashed |-> FALSE],
       [path |-> P_TableInfo \o N.Screenshot, mode |-> 1, hashed |-> TRUE],
       [path |-> CustomInfoPath, mode |-> 1, hashed |-> TRUE],
       [path |-> GameDataPath, mode |-> 1, hashed |-> TRUE] >>

FileStructure(storage) ==
    FixedStructure \o append_structure(storage, P_GameStg \o N.Sound, 1, FALSE, 0)
      \o append_structure(storage, P_GameStg \o N.Font, 1, FALSE, 0)
      \o append_structure(storage, P_GameStg \o N.Collection, 1, TRUE, 0)

\* a storage with one more stream (CreateStream with STGM_CREATE replaces a stream of that name)
WithStream(storage, path, data) ==
    [q \in DOMAIN storage \cup {path} |-> IF q = path THEN data ELSE storage[q]]

EmptyStorage == [q \in {} |-> <<>>]

(***************************************************************************)
(* State                                                                   *)
(***************************************************************************)
VARIABLES
    pc,                       \* position in export_vpx
    e,                        \* the scene (settings, collections, packed-texture files)
    src_storage,              \* the source container: path -> bytes
    dst_storage,              \* the destination container being built: path -> bytes
    committed,                \* dst_storage.Commit has been executed
    result,                   \* the operator's return value ("" while running)
    file_structure,
    data_hash,                \* the bytes fed to the hash so far
    table_lights, table_flashers,
    n_read_item, n_game_items,
    used_images, removed_images,   \* the keys of the two dictionaries
    needs_playfield_physics,
    bake_i,                   \* position in the sorted bake results
    new_playfield_image,      \* <<>> for None, else <<name>>
    n_images, n_read_images, nestmap_index,
    fs_i,                     \* position in file_structure
    created,                  \* history: the destination paths in the order of their CreateStream
    item_src,                 \* history: for each destination item, its source index (-1: synthesized)
    image_src,                \* history: for each destination image, its source index (-1: packmap)
    scan,                     \* history: the state left by the GameData scan (<<>> before it)
    run,                      \* 1 for the export, 2 for the export of the exported file
    first_dst,                \* the destination committed by run 1
    mesh_in,                  \* the mesh of a bake result given to the mesh encoder (<<>>: none)
    mesh_out                  \* what the mesh encoder has produced from mesh_in so far

vars == <<pc, e, src_storage, dst_storage, committed, result, file_structure, data_hash,
          table_lights, table_flashers, n_read_item, n_game_items, used_images, removed_images,
          needs_playfield_physics, bake_i, new_playfield_image, n_images, n_read_images,
          nestmap_index, fs_i, created, item_src, image_src, scan, run, first_dst, mesh_in, mesh_out>>

itemVars  == <<table_lights, table_flashers, n_read_item, n_game_items, used_images,
               removed_images, needs_playfield_physics>>
imageVars == <<n_images, n_read_images, nestmap_index>>
envVars   == <<e, src_storage, run, first_dst>>
meshVars  == <<mesh_in, mesh_out>>
exportVars == <<pc, e, src_storage, dst_storage, committed, result, file_structure, data_hash,
                table_lights, table_flashers, n_read_item, n_game_items, used_images, removed_images,
                needs_playfield_physics, bake_i, new_playfield_image, n_images, n_read_images,
                nestmap_index, fs_i, created, item_src, image_src, scan, run, first_dst>>


(***************************************************************************)
(* The inputs explored: source tables and scenes                           *)
(***************************************************************************)
MaxItems == 3

Modes == {"default", "hide", "remove", "remove_all"}

Nm_W1 == <<87, 49>>
Nm_W2 == <<87, 50>>
Nm_P1 == <<80, 49>>
Nm_L1 == <<76, 49>>
Nm_VLMX == S.VLMdot \o <<88>>
Img_a == <<97>>
Img_b == <<98>>
Img_c == <<99>>
Mat_1 == <<109, 49>>

\* source items: walls, a primitive, a light, an item left by an earlier export, an unknown kind
WallItem(name, image, collidable) ==
    U32(0) \o TaggedWideString(T.NAME, name) \o TaggedString(T.IMAG, image)
      \o TaggedBool(T.CLDR, collidable) \o TaggedBool(T.VSBL, TRUE) \o TaggedBool(T.SVBL, TRUE)
      \o TaggedBool(T.REEN, TRUE) \o EndB

PrimItem(name, image, collidable, toy) ==
    U32(19) \o TaggedString(T.IMAG, image) \o TaggedWideString(T.NAME, name)
      \o TaggedBool(T.TVIS, TRUE) \o TaggedBool(T.CLDR, collidable) \o TaggedBool(T.ISTO, toy)
      \o TaggedBool(T.REEN, TRUE) \o EndB

LightItem(name) ==
    U32(7) \o TaggedWideString(T.NAME, name) \o TaggedBool(T.BULT, FALSE) \o Tagged(T.BHHI, F.p1) \o EndB

UnknownItem(image) == U32(NPrefix) \o TaggedString(T.IMAG, image) \o EndB

ItemPool ==
    { WallItem(Nm_W1, Img_a, TRUE), WallItem(Nm_W2, Img_b, TRUE), PrimItem(Nm_P1, Img_a, FALSE, TRUE),
      PrimItem(Nm_VLMX, PackmapName(0), FALSE, TRUE), UnknownItem(Img_a) }

ItemLists == UNION {[1..n -> ItemPool] : n \in 0..MaxItems}

SourceImage(name) == TaggedString(T.NAME, name) \o TaggedString(T.PATH, name) \o EndB

BaseImages == <<SourceImage(Img_a), SourceImage(PackmapName(3)), SourceImage(Img_b), SourceImage(Img_c)>>

RECURSIVE MateTable(_)
MateTable(names) == IF names = <<>> THEN <<>> ELSE MateRecord(Head(names), 0) \o MateTable(Tail(names))

RECURSIVE PhmaTable(_)
PhmaTable(names) == IF names = <<>> THEN <<>> ELSE PhmaRecord(Head(names)) \o PhmaTable(Tail(names))

CodeRecord(code) == Tagged(T.CODE, <<>>) \o WString(code)

\* a source GameData: the material tables before or after the other records, the visual table
\* before or after the physics table, or no material table at all
GameDataOf(o) ==
    LET tables == IF o.mats = <<>> THEN TaggedU32(T.MASI, 0)
                  ELSE TaggedU32(T.MASI, Len(o.mats))
                         \o (IF o.mate_first
                             THEN Tagged(T.MATE, MateTable(o.mats)) \o Tagged(T.PHMA, PhmaTable(o.mats))
                             ELSE Tagged(T.PHMA, PhmaTable(o.mats)) \o Tagged(T.MATE, MateTable(o.mats)))
        others == Tagged(<<76,69,70,84>>, F.p0) \o TaggedString(T.IMAG, Img_a) \o TaggedString(T.PLMA, Mat_1)
                    \o TaggedU32(T.SEDT, o.n_items) \o TaggedU32(T.SIMG, o.n_images) \o CodeRecord(o.code)
    IN (IF o.tables_first THEN tables \o others ELSE others \o tables) \o EndB

MatLists ==
    { <<Mat_1>>, <<Mat_1, S.BakeSolid>>, <<S.BakeActive, Mat_1, S.Lightmap>>,
      <<S.BakeSolid, S.BakeActive, S.Lightmap>>, <<S.BakeSolid, S.BakeActive, S.Light>> }

Ref_L1 == elem_ref(Nm_L1)

Codes ==
    { <<>>, <<L.User1, L.User2>>,
      <<L.User1, L.SubTimer, L.User2, L_Upd(0, Ref_L1, 5, 2, FALSE), L_Upd(1, 3, 5, 1, TRUE), L.EndSub,
        L.SubLampz, L.User1, L.EndSub, L.SubMovable, L.EndSub>> }

BaseGD == [mats |-> <<Mat_1>>, mate_first |-> TRUE, tables_first |-> FALSE, code |-> <<L.User1>>]

\* the objects of the VLM.Result collection
ResultObj(name, type, nestmap, light, trans, pf) ==
    [name |-> name, bake_type |-> type, bake_nestmap |-> nestmap, bake_sync_light |-> light,
     bake_sync_trans |-> trans, is_pf_objects |-> pf, hdr |-> FALSE,
     polys |-> << <<0, 1, 2>>, <<2, 1, 3>>, <<0, 1, 2, 3>> >>,
     vpos |-> F.p0 \o F.p0 \o F.p0, vsiz |-> F.p1 \o F.p1 \o F.p1, rot |-> F.p0 \o F.p0 \o F.p0]

R_Bake   == ResultObj(<<66,75,49>>, "static", 0, <<>>, <<>>, FALSE)
R_Active == ResultObj(<<77,86,49>>, "active", 0, <<>>, <<120>>, FALSE)
R_Light  == ResultObj(<<76,77,46,49>>, "lightmap", 1, Nm_L1, <<>>, FALSE)
R_Light2 == ResultObj(<<76,77,50>>, "lightmap", 2, <<>>, <<>>, FALSE)
R_PF     == ResultObj(<<80,70>>, "static", 0, <<>>, <<>>, TRUE)

ResultLists == { <<R_Light, R_Bake>>, <<R_PF, R_Light>>, <<R_Active, R_Light, R_Bake>> }

AllPackFiles == {NestmapBase(n) \o S.png : n \in 0..2}

BaseScene ==
    [export_mode |-> "remove_all", playfield_col |-> TRUE, enable_vpx_reflection |-> FALSE,
     bake_objs |-> { [name |-> <<66, 49>>, vpx_object |-> Nm_W2 \o <<59>> \o Nm_P1, vpx_subpart |-> "", movable |-> FALSE] },
     light_objs |-> { [name |-> Nm_L1, vpx_object |-> Nm_L1, is_rgb |-> TRUE] },
     light_children |-> {},
     results |-> <<R_Light, R_Bake>>,
     packfiles |-> AllPackFiles,
     precondition |-> "ok",
     rerun |-> FALSE]

\* the streams of a source table other than items, images and GameData
OtherStreams ==
    LET cit == TaggedString(T.CUST, <<99, 49>>) \o TaggedString(T.CUST, <<99, 50>>) \o EndB
    IN [q \in {VersionPath, P_TableInfo \o N.TableName, P_TableInfo \o N.TableSaveDate, CustomInfoPath,
               P_TableInfo \o <<99, 49>>, CustomSrcPath(<<99, 50>>),
               P_GameStg \o N.Collection \o Dec(0)} |->
          IF q = VersionPath THEN U32(1072)
          ELSE IF q = P_TableInfo \o N.TableName THEN <<84, 0>>
          ELSE IF q = P_TableInfo \o N.TableSaveDate THEN <<49>>
          ELSE IF q = CustomInfoPath THEN cit
          ELSE IF q = P_TableInfo \o <<99, 49>> THEN <<118>>
          ELSE IF q = CustomSrcPath(<<99, 50>>) THEN <<119>>
          ELSE TaggedWideString(T.NAME, <<67>>) \o EndB]

\* the source container made of items, images, a GameData (<<>>: none) and the other streams
SourceOf(items, images, gamedata, others) ==
    LET paths == {GameItemPath(i - 1) : i \in 1..Len(items)} \cup {ImagePath(i - 1) : i \in 1..Len(images)}
                   \cup (IF gamedata = <<>> THEN {} ELSE {GameDataPath}) \cup DOMAIN others
    IN [q \in paths |->
          IF q \in DOMAIN others THEN others[q]
          ELSE IF q = GameDataPath THEN gamedata[1]
          ELSE IF \E i \in 1..Len(items) : q = GameItemPath(i - 1)
               THEN items[CHOOSE i \in 1..Len(items) : q = GameItemPath(i - 1)]
          ELSE images[CHOOSE i \in 1..Len(images) : q = ImagePath(i - 1)]]

GDFor(o, items, images) ==
    GameDataOf([mats |-> o.mats, mate_first |-> o.mate_first, tables_first |-> o.tables_first,
                code |-> o.code, n_items |-> Len(items), n_images |-> Len(images)])

BaseItems == <<WallItem(Nm_W1, Img_a, TRUE), LightItem(Nm_L1)>>

\* one source item of each kind the item loop patches, every flag true, and two items of a kind
\* outside the known range
RECURSIVE BoolFields(_)
BoolFields(tags) == IF tags = <<>> THEN <<>> ELSE TaggedBool(Head(tags), TRUE) \o BoolFields(Tail(tags))

KindItem(type, name, tags, tail) ==
    type \o TaggedWideString(T.NAME, name) \o BoolFields(tags) \o tail \o EndB

Nm_G1 == <<71, 49>>
Nm_S1 == <<83, 49>>
Nm_B1 == <<66, 49>>
Nm_F1 == <<70, 49>>
Nm_T1 == <<84, 49>>
Nm_R1 == <<82, 49>>
Nm_H1 == <<72, 49>>

KindItems ==
    << KindItem(U32(19), S.playfield_mesh, <<T.TVIS, T.CLDR, T.REEN>>, <<>>),
       KindItem(U32(10), Nm_G1, <<T.GSUP, T.REEN>>, <<>>),
       KindItem(U32(11), Nm_S1, <<T.SSUP, T.TVIS>>, <<>>),
       KindItem(U32(5), Nm_B1, <<T.CAVI, T.BSVS, T.RIVS, T.SKVS, T.REEN>>, <<>>),
       KindItem(U32(20), Nm_F1, <<T.FVIS>>, Tagged(T.FHEI, F.p1)),
       KindItem(U32(7), Nm_L1, <<T.BULT, T.REEN>>, Tagged(T.BHHI, F.p1)),
       KindItem(U32(6), Nm_T1, <<T.VSBL>>, <<>>),
       KindItem(U32(12), Nm_R1, <<T.RVIS, T.VSBL>>, <<>>),
       KindItem(U32(22), Nm_H1, <<T.TVIS, T.FVIS>>, <<>>),
       KindItem(U32(NPrefix), Nm_VLMX, <<T.TVIS, T.REEN>>, <<>>),
       KindItem(I32Minus1, Nm_H1, <<T.TVIS>>, TaggedString(T.IMAG, Img_b)) >>

\* the bake collection that covers the items of KindItems: one bake object over the named
\* items and the gate bracket (covered), and one bake object per baked part of the bumper
KindBakes(covered, parts) ==
    (IF covered
     THEN { [name |-> <<66, 50>>,
             vpx_object |-> Nm_G1 \o <<59>> \o Nm_S1 \o <<59>> \o Nm_F1 \o <<59>> \o Nm_L1 \o <<59>>
                              \o Nm_T1 \o <<59>> \o Nm_R1 \o <<59>> \o Nm_H1,
             vpx_subpart |-> "", movable |-> FALSE],
            [name |-> S.GateBracket \o Nm_G1, vpx_object |-> <<>>, vpx_subpart |-> "", movable |-> TRUE] }
     ELSE {})
    \cup { [name |-> <<66, 51>>, vpx_object |-> Nm_B1, vpx_subpart |-> part, movable |-> FALSE] :
             part \in parts }

PartSets == { {}, {"Ring"}, {"Cap", "Base"}, {"Ring", "Socket"}, {"Cap", "Base", "Ring", "Socket"} }

\* a primitive whose toy record comes before its collidable record
ToyFirstItem(name, image, collidable, toy) ==
    U32(19) \o TaggedWideString(T.NAME, name) \o TaggedString(T.IMAG, image)
      \o TaggedBool(T.TVIS, TRUE) \o TaggedBool(T.ISTO, toy) \o TaggedBool(T.CLDR, collidable)
      \o TaggedBool(T.REEN, TRUE) \o EndB

\* baked (W2, P1) and unbaked (W1) primitives with their collidable and toy records in both orders
ToyOrderItems ==
    { << PrimItem(Nm_P1, Img_a, TRUE, TRUE), ToyFirstItem(Nm_W2, Img_b, TRUE, TRUE) >>,
      << ToyFirstItem(Nm_P1, Img_a, FALSE, TRUE), PrimItem(Nm_W2, Img_b, TRUE, FALSE),
         ToyFirstItem(Nm_W1, Img_c, TRUE, TRUE) >>,
      << ToyFirstItem(Nm_P1, Img_a, TRUE, FALSE), PrimItem(Nm_W2, Img_b, FALSE, FALSE) >> }

\* scripts with each combination of the three routines, the timer routine holding a user line
\* and a statement for a flasher that no lightmap is synchronized on
RoutineCode(t, l, m) ==
    <<L.User1>>
      \o (IF t THEN <<L.SubTimer, L.User2, L_Upd(1, 3, 5, 1, TRUE), L.EndSub>> ELSE <<>>)
      \o (IF l THEN <<L.SubLampz, L.User1, L.EndSub>> ELSE <<>>)
      \o (IF m THEN <<L.SubMovable, L.EndSub>> ELSE <<>>)

\* scripts whose timer routine holds a statement for the light L1, with the intensity "100" and
\* with the intensity "50"
MatchCode(it) == <<L.SubTimer, L.User1, L_Upd(0, elem_ref(Nm_L1), 8, it, FALSE), L.EndSub>>

ScriptCodes == {RoutineCode(t, l, m) : t \in BOOLEAN, l \in BOOLEAN, m \in BOOLEAN} \cup {MatchCode(1), MatchCode(2)}

\* the explored inputs: every list of items under every export mode; every GameData layout,
\* script and set of bake results, exported once or twice; the runs that cannot complete;
\* the items of every patched kind under every export mode and bake collection; the toy and
\* collidable records in both orders under every export mode; every script under two sets of
\* bake results
Inputs ==
    { [scene |-> [BaseScene EXCEPT !.export_mode = m],
       src |-> SourceOf(items, BaseImages, <<GDFor(BaseGD, items, BaseImages)>>, OtherStreams)] :
         items \in ItemLists, m \in Modes }
    \cup
    { [scene |-> [BaseScene EXCEPT !.results = rs, !.rerun = rr],
       src |-> SourceOf(BaseItems, BaseImages,
                        <<GDFor([mats |-> ms, mate_first |-> mf, tables_first |-> tf, code |-> cd],
                                BaseItems, BaseImages)>>, OtherStreams)] :
         ms \in MatLists, mf \in BOOLEAN, tf \in BOOLEAN, cd \in Codes, rs \in ResultLists, rr \in BOOLEAN }
    \cup
    { [scene |-> [BaseScene EXCEPT !.precondition = pr], src |-> SourceOf(BaseItems, BaseImages,
                        <<GDFor(BaseGD, BaseItems, BaseImages)>>, OtherStreams)] :
         pr \in {"unsaved", "nofile", "nocol"} }
    \cup
    { [scene |-> [BaseScene EXCEPT !.packfiles = pf, !.results = rs],
       src |-> SourceOf(BaseItems, BaseImages, gd,
                        [q \in DOMAIN OtherStreams \ drop |-> OtherStreams[q]])] :
         pf \in {AllPackFiles, AllPackFiles \ {NestmapBase(1) \o S.png}, {NestmapBase(0) \o S.png}, {}},
         rs \in {<<R_Light, R_Bake>>, <<R_PF, R_Bake>>, <<R_Bake, R_Light2>>, <<>>},
         gd \in {<<>>, <<GDFor(BaseGD, BaseItems, BaseImages)>>,
                 <<GDFor([BaseGD EXCEPT !.mats = <<>>], BaseItems, BaseImages)>>},
         drop \in {{}, {VersionPath}} }
    \cup
    { [scene |-> [BaseScene EXCEPT !.export_mode = m, !.bake_objs = KindBakes(cv, parts),
                                   !.light_objs = @ \cup {[name |-> Nm_F1, vpx_object |-> Nm_F1,
                                                           is_rgb |-> FALSE]}],
       src |-> SourceOf(KindItems, BaseImages, <<GDFor(BaseGD, KindItems, BaseImages)>>, OtherStreams)] :
         m \in Modes, cv \in BOOLEAN, parts \in PartSets }
    \cup
    { [scene |-> [BaseScene EXCEPT !.export_mode = m],
       src |-> SourceOf(items, BaseImages, <<GDFor(BaseGD, items, BaseImages)>>, OtherStreams)] :
         items \in ToyOrderItems, m \in Modes }
    \cup
    { [scene |-> [BaseScene EXCEPT !.results = rs],
       src |-> SourceOf(BaseItems, BaseImages,
                        <<GDFor([BaseGD EXCEPT !.code = cd], BaseItems, BaseImages)>>, OtherStreams)] :
         cd \in ScriptCodes, rs \in {<<R_Light, R_Bake>>, <<R_Active, R_Light2, R_Bake>>} }


(***************************************************************************)
(* export_vpx                                                              *)
(***************************************************************************)
Locals0 ==
    /\ file_structure = <<>>
    /\ data_hash = <<>>
    /\ table_lights = {}
    /\ table_flashers = {}
    /\ n_read_item = 0
    /\ n_game_items = 0
    /\ used_images = {}
    /\ removed_images = {}
    /\ needs_playfield_physics = TRUE
    /\ bake_i = 1
    /\ new_playfield_image = <<>>
    /\ n_images = 0
    /\ n_read_images = 0
    /\ nestmap_index = 0
    /\ fs_i = 1
    /\ created = <<>>
    /\ item_src = <<>>
    /\ image_src = <<>>
    /\ scan = <<>>

Init ==
    /\ \E i \in Inputs : e = i.scene /\ src_storage = i.src
    /\ pc = "start"
    /\ dst_storage = EmptyStorage
    /\ committed = FALSE
    /\ result = ""
    /\ run = 1
    /\ first_dst = EmptyStorage
    /\ Locals0
    /\ mesh_in = <<>>
    /\ mesh_out = <<>>

\* lines 48-60: the project is not saved, the table file or the result collection is missing
CancelStart ==
    /\ pc = "start"
    /\ e.precondition # "ok"
    /\ pc' = "cancelled"
    /\ result' = "CANCELLED"
    /\ UNCHANGED <<e, src_storage, dst_storage, committed, file_structure, data_hash, itemVars, bake_i,
                   new_playfield_image, imageVars, fs_i, created, item_src, image_src, scan, run, first_dst>>
    /\ UNCHANGED meshVars

\* lines 62-121: the destination storages are created, the hash is seeded, the list of the
\* streams to copy is built
Start ==
    /\ pc = "start"
    /\ e.precondition = "ok"
    /\ pc' = "items"
    /\ dst_storage' = EmptyStorage
    /\ data_hash' = S.VisualPinball
    /\ file_structure' = FileStructure(src_storage)
    /\ UNCHANGED <<e, src_storage, committed, result, itemVars, bake_i, new_playfield_image, imageVars,
                   fs_i, created, item_src, image_src, scan, run, first_dst>>
    /\ UNCHANGED meshVars

ItemStreamPath_Previous(n_game, n_read) == GameItemPath(IF n_game > 0 THEN n_game - 1 ELSE 0)

ItemStreamPath_Read(n_game, n_read) == GameItemPath(n_read)

\* line 237: the destination stream of a kept item
ItemStreamPath(n_game, n_read) == GameItemPath(n_game)

\* lines 122-240: one source item
ItemStep ==
    /\ pc = "items"
    /\ exists(src_storage, GameItemPath(n_read_item))
    /\ LET data == src_storage[GameItemPath(n_read_item)]
       IN IF ~IsSupportedType(data)
          THEN /\ dst_storage' = WithStream(dst_storage, GameItemPath(n_game_items), data)
               /\ created' = Append(created, GameItemPath(n_game_items))
               /\ item_src' = Append(item_src, n_read_item)
               /\ n_game_items' = n_game_items + 1
               /\ UNCHANGED <<table_lights, table_flashers, used_images, removed_images,
                              needs_playfield_physics>>
          ELSE \E r \in {ProcessItem(data, e, needs_playfield_physics, table_lights, table_flashers)} :
                  /\ table_lights' = r.lights
                  /\ table_flashers' = r.flashers
                  /\ needs_playfield_physics' = r.needs_pf
                  /\ IF r.as_removed
                     THEN /\ removed_images' = removed_images \cup SeqToSet(r.item_images)
                          /\ UNCHANGED used_images
                     ELSE /\ used_images' = used_images \cup SeqToSet(r.item_images)
                          /\ UNCHANGED removed_images
                  /\ IF r.remove
                     THEN UNCHANGED <<dst_storage, created, item_src, n_game_items>>
                     ELSE /\ dst_storage' = WithStream(dst_storage, ItemStreamPath(n_game_items, n_read_item), r.data)
                          /\ created' = Append(created, ItemStreamPath(n_game_items, n_read_item))
                          /\ item_src' = Append(item_src, n_read_item)
                          /\ n_game_items' = n_game_items + 1
    /\ n_read_item' = n_read_item + 1
    /\ UNCHANGED <<pc, e, src_storage, committed, result, file_structure, data_hash, bake_i,
                   new_playfield_image, imageVars, fs_i, image_src, scan, run, first_dst>>
    /\ UNCHANGED meshVars

\* lines 242-260: the sync timer, once the item loop is over
AddSyncTimer ==
    /\ pc = "items"
    /\ ~exists(src_storage, GameItemPath(n_read_item))
    /\ dst_storage' = WithStream(dst_storage, GameItemPath(n_game_items), SyncTimerItem)
    /\ created' = Append(created, GameItemPath(n_game_items))
    /\ item_src' = Append(item_src, -1)
    /\ n_game_items' = n_game_items + 1
    /\ pc' = "bakes"
    /\ UNCHANGED <<e, src_storage, committed, result, file_structure, data_hash, table_lights,
                   table_flashers, n_read_item, used_images, removed_images, needs_playfield_physics,
                   bake_i, new_playfield_image, imageVars, fs_i, image_src, scan, run, first_dst>>
    /\ UNCHANGED meshVars

\* lines 261-361: one bake result, in sorted order
AddBake ==
    /\ pc = "bakes"
    /\ bake_i <= Len(e.results)
    /\ LET obj == SortedResults(e.results)[bake_i]
       IN /\ dst_storage' = WithStream(dst_storage, GameItemPath(n_game_items), BakeItem(obj, e))
          /\ new_playfield_image' = IF IsPlayfieldBake(obj, e) THEN <<PackmapName(obj.bake_nestmap)>>
                                    ELSE new_playfield_image
    /\ created' = Append(created, GameItemPath(n_game_items))
    /\ item_src' = Append(item_src, -1)
    /\ n_game_items' = n_game_items + 1
    /\ bake_i' = bake_i + 1
    /\ UNCHANGED <<pc, e, src_storage, committed, result, file_structure, data_hash, table_lights,
                   table_flashers, n_read_item, used_images, removed_images, needs_playfield_physics,
                   imageVars, fs_i, image_src, scan, run, first_dst>>
    /\ UNCHANGED meshVars

\* lines 363-379: the playfield image of the source becomes removable; openstream raises when
\* the source has no GameData
MarkPlayfieldImage ==
    /\ pc = "bakes"
    /\ bake_i > Len(e.results)
    /\ IF new_playfield_image # <<>> /\ ~exists(src_storage, GameDataPath)
       THEN /\ pc' = "failed"
            /\ result' = "FAILED"
            /\ UNCHANGED removed_images
       ELSE /\ pc' = "images"
            /\ removed_images' =
                 IF new_playfield_image # <<>>
                 THEN removed_images \cup SeqToSet(PlayfieldImageOf(BIFF_reader(src_storage[GameDataPath])))
                 ELSE removed_images
            /\ UNCHANGED result
    /\ UNCHANGED <<e, src_storage, dst_storage, committed, file_structure, data_hash, table_lights,
                   table_flashers, n_read_item, n_game_items, used_images, needs_playfield_physics,
                   bake_i, new_playfield_image, imageVars, fs_i, created, item_src, image_src, scan,
                   run, first_dst>>
    /\ UNCHANGED meshVars

RemoveImage_AnyRemoveMode(name, mode, used, removed) ==
    StartsWith(name, S.VLMdot)
      \/ ((mode = "remove" \/ mode = "remove_all") /\ name \notin used /\ name \in removed)

RemoveImage_IgnoreUsed(name, mode, used, removed) ==
    StartsWith(name, S.VLMdot) \/ (mode = "remove_all" /\ name \in removed)

\* lines 390-391: whether a source image is left out
RemoveImage(name, mode, used, removed) ==
    StartsWith(name, S.VLMdot) \/ (mode = "remove_all" /\ name \notin used /\ name \in removed)

\* lines 380-399: one source image
ImageStep ==
    /\ pc = "images"
    /\ exists(src_storage, ImagePath(n_read_images))
    /\ LET data == src_storage[ImagePath(n_read_images)]
           name == ImageName(BIFF_reader(data))
       IN IF RemoveImage(name, e.export_mode, used_images, removed_images)
          THEN UNCHANGED <<dst_storage, created, image_src, n_images>>
          ELSE /\ dst_storage' = WithStream(dst_storage, ImagePath(n_images), data)
               /\ created' = Append(created, ImagePath(n_images))
               /\ image_src' = Append(image_src, n_read_images)
               /\ n_images' = n_images + 1
    /\ n_read_images' = n_read_images + 1
    /\ UNCHANGED <<pc, e, src_storage, committed, result, file_structure, data_hash, itemVars, bake_i,
                   new_playfield_image, nestmap_index, fs_i, item_src, scan, run, first_dst>>
    /\ UNCHANGED meshVars

AtPackmaps == pc = "packmaps" \/ (pc = "images" /\ ~exists(src_storage, ImagePath(n_read_images)))

\* lines 403-439: the packmap of the next nestmap index, when a bake result uses it
PackmapStep ==
    /\ AtPackmaps
    /\ NestmapObjects(e, nestmap_index) # {}
    /\ NestmapPath(e, nestmap_index) \in e.packfiles
    /\ dst_storage' = WithStream(dst_storage, ImagePath(n_images), PackmapImage(e, nestmap_index))
    /\ created' = Append(created, ImagePath(n_images))
    /\ image_src' = Append(image_src, -1)
    /\ nestmap_index' = nestmap_index + 1
    /\ n_images' = n_images + 1
    /\ pc' = "packmaps"
    /\ UNCHANGED <<e, src_storage, committed, result, file_structure, data_hash, itemVars, bake_i,
                   new_playfield_image, n_read_images, fs_i, item_src, scan, run, first_dst>>
    /\ UNCHANGED meshVars

\* lines 410-412: the packed-texture file is missing
CancelMissingPack ==
    /\ AtPackmaps
    /\ NestmapObjects(e, nestmap_index) # {}
    /\ NestmapPath(e, nestmap_index) \notin e.packfiles
    /\ pc' = "cancelled"
    /\ result' = "CANCELLED"
    /\ UNCHANGED <<e, src_storage, dst_storage, committed, file_structure, data_hash, itemVars, bake_i,
                   new_playfield_image, imageVars, fs_i, created, item_src, image_src, scan, run, first_dst>>
    /\ UNCHANGED meshVars

AtCopy == pc = "copy" \/ (AtPackmaps /\ NestmapObjects(e, nestmap_index) = {})

\* the streams of the custom info tags: [storage, created, fed]
RECURSIVE CopyCustom(_, _)
CopyCustom(names, acc) ==
    IF names = <<>> THEN acc
    ELSE IF exists(src_storage, CustomSrcPath(Head(names)))
         THEN CopyCustom(Tail(names),
                [storage |-> WithStream(acc.storage, CustomDstPath(Head(names)),
                                        src_storage[CustomSrcPath(Head(names))]),
                 created |-> Append(acc.created, CustomDstPath(Head(names))),
                 fed     |-> acc.fed \o src_storage[CustomSrcPath(Head(names))]])
         ELSE CopyCustom(Tail(names), acc)

CopyStream_HashSource(f, data, acc) ==
    LET Custom(st1) ==
            IF f.path = CustomInfoPath THEN CopyCustom(CustomNames(BIFF_reader(data)), st1) ELSE st1
    IN Custom([storage |-> WithStream(acc.storage, f.path, data),
               created |-> Append(acc.created, f.path),
               fed     |-> acc.fed \o (IF f.hashed THEN HashedBytes(src_storage[f.path], f.mode)
                                       ELSE <<>>)])

\* lines 718-746: the stream is written and hashed; the custom info streams follow their index
CopyStream(f, data, acc) ==
    LET Custom(st1) ==
            IF f.path = CustomInfoPath THEN CopyCustom(CustomNames(BIFF_reader(data)), st1) ELSE st1
    IN Custom([storage |-> WithStream(acc.storage, f.path, data),
               created |-> Append(acc.created, f.path),
               fed     |-> acc.fed \o (IF f.hashed THEN HashedBytes(data, f.mode) ELSE <<>>)])

\* lines 442-746: one entry of file_structure
CopyStep ==
    /\ AtCopy
    /\ fs_i <= Len(file_structure)
    /\ LET f == file_structure[fs_i]
       IN IF ~exists(src_storage, f.path)
          THEN /\ pc' = "copy"
               /\ UNCHANGED <<dst_storage, data_hash, created, scan, result>>
          ELSE \E p \in {IF f.path = GameDataPath
                           THEN PatchGameData(src_storage[f.path],
                                  [n_images |-> n_images, n_game_items |-> n_game_items,
                                   n_read_item |-> n_read_item,
                                   new_playfield_image |-> new_playfield_image, e |-> e,
                                   table_lights |-> table_lights, table_flashers |-> table_flashers])
                           ELSE [ok |-> TRUE, data |-> src_storage[f.path], g |-> <<>>]} :
                  IF ~p.ok
                  THEN /\ pc' = "failed"
                       /\ result' = "FAILED"
                       /\ UNCHANGED <<dst_storage, data_hash, created, scan>>
                  ELSE \E st \in {CopyStream(f, p.data, [storage |-> dst_storage, created |-> created,
                                                          fed |-> data_hash])} :
                       /\ pc' = "copy"
                       /\ dst_storage' = st.storage
                       /\ created' = st.created
                       /\ data_hash' = st.fed
                       /\ scan' = IF f.path = GameDataPath THEN <<p.g>> ELSE scan
                       /\ UNCHANGED result
    /\ fs_i' = fs_i + 1
    /\ UNCHANGED <<e, src_storage, committed, file_structure, itemVars, bake_i, new_playfield_image,
                   imageVars, item_src, image_src, run, first_dst>>
    /\ UNCHANGED meshVars

\* lines 755-760: the digest of the fed bytes is written to the MAC stream
WriteMAC ==
    /\ AtCopy
    /\ fs_i > Len(file_structure)
    /\ dst_storage' = WithStream(dst_storage, MACPath, data_hash)
    /\ created' = Append(created, MACPath)
    /\ pc' = "mac"
    /\ UNCHANGED <<e, src_storage, committed, result, file_structure, data_hash, itemVars, bake_i,
                   new_playfield_image, imageVars, fs_i, item_src, image_src, scan, run, first_dst>>
    /\ UNCHANGED meshVars

Commit_Early ==
    /\ pc \in {"copy", "mac"}
    /\ committed' = TRUE
    /\ result' = "FINISHED"
    /\ pc' = "done"
    /\ UNCHANGED <<e, src_storage, dst_storage, file_structure, data_hash, itemVars, bake_i,
                   new_playfield_image, imageVars, fs_i, created, item_src, image_src, scan, run, first_dst>>
    /\ UNCHANGED meshVars

\* lines 761-765
Commit ==
    /\ pc = "mac"
    /\ committed' = TRUE
    /\ result' = "FINISHED"
    /\ pc' = "done"
    /\ UNCHANGED <<e, src_storage, dst_storage, file_structure, data_hash, itemVars, bake_i,
                   new_playfield_image, imageVars, fs_i, created, item_src, image_src, scan, run, first_dst>>
    /\ UNCHANGED meshVars

\* the user exports again, with the exported file as the table file and the same scene
ReExport ==
    /\ pc = "done"
    /\ e.rerun
    /\ run = 1
    /\ run' = 2
    /\ first_dst' = dst_storage
    /\ src_storage' = dst_storage
    /\ pc' = "start"
    /\ dst_storage' = EmptyStorage
    /\ committed' = FALSE
    /\ result' = ""
    /\ file_structure' = <<>>
    /\ data_hash' = <<>>
    /\ table_lights' = {}
    /\ table_flashers' = {}
    /\ n_read_item' = 0
    /\ n_game_items' = 0
    /\ used_images' = {}
    /\ removed_images' = {}
    /\ needs_playfield_physics' = TRUE
    /\ bake_i' = 1
    /\ new_playfield_image' = <<>>
    /\ n_images' = 0
    /\ n_read_images' = 0
    /\ nestmap_index' = 0
    /\ fs_i' = 1
    /\ created' = <<>>
    /\ item_src' = <<>>
    /\ image_src' = <<>>
    /\ scan' = <<>>
    /\ UNCHANGED e
    /\ UNCHANGED meshVars

\* after an export in mode default the user exports the same table file again in mode hide
ExportAsHide ==
    /\ pc = "done"
    /\ e.export_mode = "default"
    /\ ~e.rerun
    /\ run = 1
    /\ run' = 3
    /\ first_dst' = dst_storage
    /\ e' = [e EXCEPT !.export_mode = "hide"]
    /\ pc' = "start"
    /\ dst_storage' = EmptyStorage
    /\ committed' = FALSE
    /\ result' = ""
    /\ file_structure' = <<>>
    /\ data_hash' = <<>>
    /\ table_lights' = {}
    /\ table_flashers' = {}
    /\ n_read_item' = 0
    /\ n_game_items' = 0
    /\ used_images' = {}
    /\ removed_images' = {}
    /\ needs_playfield_physics' = TRUE
    /\ bake_i' = 1
    /\ new_playfield_image' = <<>>
    /\ n_images' = 0
    /\ n_read_images' = 0
    /\ nestmap_index' = 0
    /\ fs_i' = 1
    /\ created' = <<>>
    /\ item_src' = <<>>
    /\ image_src' = <<>>
    /\ scan' = <<>>
    /\ UNCHANGED src_storage
    /\ UNCHANGED meshVars

Next ==
    \/ CancelStart
    \/ Start
    \/ ItemStep
    \/ AddSyncTimer
    \/ AddBake
    \/ MarkPlayfieldImage
    \/ ImageStep
    \/ PackmapStep
    \/ CancelMissingPack
    \/ CopyStep
    \/ WriteMAC
    \/ Commit
    \/ ReExport
    \/ ExportAsHide

Spec == Init /\ [][Next]_vars

(***************************************************************************)
(* The mesh of a bake result (lines 310-349) on its own: deduplication of  *)
(* the triangle corners, then the vertex and index buffers                 *)
(***************************************************************************)
MaxPolys == 2

\* polygons, each a sequence of loops given by the code of their attribute tuple: triangles
\* that share corners or repeat one, a quad and a two-sided polygon
PolygonPool ==
    { <<0, 1, 2>>, <<2, 1, 3>>, <<0, 0, 1>>, <<3, 3, 3>>, <<1, 2, 0>>, <<4, 5, 3>>, <<0, 1, 2, 3>>, <<6, 7>> }

\* the meshes given by their polygons, and the meshes around the index width limit, given by
\* their vertex count and the indices of one triangle
MeshInputs ==
    { [kind |-> "polys", polys |-> p, n_vertices |-> 0, indices |-> <<>>] :
          p \in UNION {[1..n -> PolygonPool] : n \in 0..MaxPolys} }
    \cup
    UNION { { [kind |-> "counted", polys |-> <<>>, n_vertices |-> n, indices |-> ix] :
                ix \in [1..3 -> {0, 256, n - 1}] } :
            n \in (IndexWidthLimit - 1)..(IndexWidthLimit + 2) }

MeshInit ==
    /\ mesh_in \in MeshInputs
    /\ mesh_out = [mesh |-> <<>>, records |-> <<>>]
    /\ pc = "mesh"
    /\ e = BaseScene
    /\ src_storage = EmptyStorage
    /\ dst_storage = EmptyStorage
    /\ committed = FALSE
    /\ result = ""
    /\ run = 1
    /\ first_dst = EmptyStorage
    /\ Locals0

\* lines 310-331: the loop over the polygons
MeshBuild ==
    /\ pc = "mesh"
    /\ mesh_in.kind = "polys"
    /\ mesh_out.mesh = <<>>
    /\ mesh_out' = [mesh_out EXCEPT !.mesh = <<MeshOf(mesh_in.polys, [vertices |-> <<>>, indices |-> <<>>])>>]
    /\ UNCHANGED <<mesh_in, exportVars>>

\* lines 335-349: the records of the mesh that was built
MeshEncode ==
    /\ pc = "mesh"
    /\ mesh_out.mesh # <<>>
    /\ mesh_out.records = <<>>
    /\ mesh_out' = [mesh_out EXCEPT !.records = <<MeshRecords(mesh_out.mesh[1])>>]
    /\ UNCHANGED <<mesh_in, exportVars>>

\* lines 342-347: the index buffer of a mesh given by its vertex count and indices
MeshPackIndices ==
    /\ pc = "mesh"
    /\ mesh_in.kind = "counted"
    /\ mesh_out.records = <<>>
    /\ mesh_out' = [mesh_out EXCEPT !.records = <<PackedIndices(mesh_in.indices, mesh_in.n_vertices)>>]
    /\ UNCHANGED <<mesh_in, exportVars>>

MeshNext ==
    \/ MeshBuild
    \/ MeshEncode
    \/ MeshPackIndices

MeshSpec == MeshInit /\ [][MeshNext]_vars

(***************************************************************************)
(* Reading the streams back: the records of a stream, decoded from its     *)
(* bytes alone                                                             *)
(***************************************************************************)
\* the records from position p on: [tag, pos (of the length field), payload]; the payload of the
\* CODE record is its length-prefixed string
RECURSIVE RecordsFrom(_, _)
RecordsFrom(d, p) ==
    IF p + 8 > Len(d) THEN <<>>
    ELSE LET tag == Slice(d, p + 4, 4)
             n   == IF tag = T.CODE THEN 4 + RdU32(d, p + 8) ELSE RdU32(d, p) - 4
             rec == [tag |-> tag, pos |-> p, payload |-> Slice(d, p + 8, n)]
         IN IF tag = T.ENDB \/ n < 0 THEN <<rec>> ELSE <<rec>> \o RecordsFrom(d, p + 8 + n)

Records(d) == RecordsFrom(d, 0)

HasField(rs, tag) == \E i \in 1..Len(rs) : rs[i].tag = tag

FieldOf(rs, tag) == rs[CHOOSE i \in 1..Len(rs) : rs[i].tag = tag].payload

FieldU32(rs, tag) == RdU32(FieldOf(rs, tag), 0)

\* the fixed-size records of a material table
TableRecords(payload, size) ==
    [i \in 1..(Len(payload) \div size) |-> SubSeq(payload, (i - 1) * size + 1, i * size)]

TableNames(payload, size) ==
    [i \in 1..(Len(payload) \div size) |->
        RStripZero(SubSeq(payload, (i - 1) * size + 1, (i - 1) * size + MatNameSize))]

Count(seq, x) == Cardinality({i \in DOMAIN seq : seq[i] = x})

RECURSIVE IsSubseq(_, _)
IsSubseq(a, b) ==
    IF a = <<>> THEN TRUE
    ELSE IF b = <<>> THEN FALSE
    ELSE IF Head(a) = Head(b) THEN IsSubseq(Tail(a), Tail(b))
    ELSE IsSubseq(a, Tail(b))

\* the indices of the GameItem and Image streams of the destination
ItemIdx == {n \in 0..(n_read_item + Len(created)) : GameItemPath(n) \in DOMAIN dst_storage}

ImageIdx == {n \in 0..(n_read_images + Len(created)) : ImagePath(n) \in DOMAIN dst_storage}

Increasing(seq) ==
    \A i, j \in 1..Len(seq) : (i < j /\ seq[i] >= 0 /\ seq[j] >= 0) => seq[i] < seq[j]

Kept(seq) == Cardinality({k \in 1..Len(seq) : seq[k] >= 0})

Synthesized(seq) == Cardinality({k \in 1..Len(seq) : seq[k] < 0})

SrcImageName(i) == ImageName(BIFF_reader(src_storage[ImagePath(i)]))

\* source image i has been examined and has not been written to the destination
Omitted(i) == i < n_read_images /\ i \notin SeqToSet(image_src)

\* the texture names an item stream refers to
ItemRefs(d) ==
    LET rs == RecordsFrom(d, 4)
    IN {SubSeq(rs[i].payload, 5, Len(rs[i].payload)) :
          i \in {j \in 1..Len(rs) : rs[j].tag \in {T.IMAG, T.SIMG, T.IMAB}}}

WellKnown == {S.BakeSolid, S.BakeActive, S.Lightmap}

(***************************************************************************)
(* Properties                                                              *)
(***************************************************************************)
\* C1: exporting again, with the first export's output as the source and the same bake results
\* and settings, yields a destination byte-identical to the first one.
C1_IdempotentReExport == (run = 2 /\ pc = "done") => dst_storage = first_dst

\* C2: at every point of an export the GameItem and the Image streams of the destination have
\* the indices 0..k-1 without a gap, and the k-th stream written holds a source stream that
\* comes later in the source than the ones before it (the survivors keep their order).
C2_DenseRenumbering ==
    /\ ItemIdx = 0..(Len(item_src) - 1)
    /\ ImageIdx = 0..(Len(image_src) - 1)
    /\ Increasing(item_src)
    /\ Increasing(image_src)
    /\ \A k \in 1..Len(image_src) :
         image_src[k] >= 0 => dst_storage[ImagePath(k - 1)] = src_storage[ImagePath(image_src[k])]
    /\ \A k \in 1..Len(item_src) :
         item_src[k] >= 0 =>
           LET d == dst_storage[GameItemPath(k - 1)]
               o == src_storage[GameItemPath(item_src[k])]
           IN Len(d) = Len(o) /\ SubSeq(d, 1, 4) = SubSeq(o, 1, 4)
                /\ ItemRefs(d) = ItemRefs(o)

\* an export is over in which a source item and a source image moved to a lower index
C2_Witness ==
    /\ pc = "done"
    /\ \E k \in 1..Len(item_src) : item_src[k] > k - 1
    /\ \E k \in 1..Len(image_src) : image_src[k] > k - 1

\* C3: once the destination GameData is written, its SEDT field is the number of GameItem
\* streams of the destination (kept source items + the sync timer + one per bake result) and
\* its SIMG field is the number of Image streams (kept source images + one per packmap).
C3_DeclaredCounts ==
    GameDataPath \in DOMAIN dst_storage =>
      LET rs == Records(dst_storage[GameDataPath])
      IN /\ FieldU32(rs, T.SEDT) = Cardinality(ItemIdx)
         /\ Cardinality(ItemIdx) = Kept(item_src) + 1 + Len(e.results)
         /\ FieldU32(rs, T.SIMG) = Cardinality(ImageIdx)
         /\ Cardinality(ImageIdx) = Kept(image_src) + Synthesized(image_src)
         /\ Synthesized(image_src) = nestmap_index

\* an export is over that dropped a source item and a source image and added a packmap
C3_Witness ==
    /\ pc = "done"
    /\ GameDataPath \in DOMAIN dst_storage
    /\ Kept(item_src) < n_read_item
    /\ Kept(image_src) < n_read_images
    /\ Synthesized(image_src) > 0
    /\ Len(e.results) > 0

\* C4: each of the three well-known materials gets a record in the visual and in the physics
\* table if and only if the source table lacks its name, and MASI grows by the number of the
\* names the source lacks.
C4_MaterialsAddedIffAbsent ==
    (scan # <<>> /\ GameDataPath \in DOMAIN dst_storage) =>
      LET sr == Records(src_storage[GameDataPath])
          dr == Records(dst_storage[GameDataPath])
          sm == TableNames(FieldOf(sr, T.MATE), MateSize)
          dm == TableNames(FieldOf(dr, T.MATE), MateSize)
          sp == TableNames(FieldOf(sr, T.PHMA), PhmaSize)
          dp == TableNames(FieldOf(dr, T.PHMA), PhmaSize)
          absent == {nm \in WellKnown : Count(sm, nm) = 0}
      IN /\ \A nm \in WellKnown :
              /\ Count(dm, nm) - Count(sm, nm) = (IF nm \in absent THEN 1 ELSE 0)
              /\ Count(dp, nm) - Count(sp, nm) = (IF nm \in absent THEN 1 ELSE 0)
         /\ FieldU32(dr, T.MASI) - FieldU32(sr, T.MASI) = Cardinality(absent)

\* the records of a material table, of the buffer the scan left and of the destination
SpliceFrame(pre, post, src, data) ==
    LET masi == FieldU32(post, T.MASI)
        tableOk(i, size) ==
            /\ RdU32(data, post[i].pos) = masi * size + 4
            /\ Len(post[i].payload) = masi * size
            /\ IsSubseq(TableRecords(src[i].payload, size), TableRecords(post[i].payload, size))
    IN /\ Len(post) = Len(pre)
       /\ Len(src) = Len(pre)
       /\ post[Len(post)].tag = T.ENDB
       /\ post[Len(post)].pos + 8 = Len(data)
       /\ \A i \in 1..Len(post) :
            /\ post[i].tag = pre[i].tag
            /\ src[i].tag = pre[i].tag
            /\ post[i].tag \notin {T.MASI, T.MATE, T.PHMA} => post[i].payload = pre[i].payload
            /\ post[i].tag = T.MATE => tableOk(i, MateSize)
            /\ post[i].tag = T.PHMA => tableOk(i, PhmaSize)

\* C5: after the splice the material records of the source tables are all there, unchanged and
\* in their order, the declared lengths of the tables are MASI*76+4 and MASI*48+4, and every
\* record other than MASI, MATE and PHMA is as the scan left it.
C5_SpliceFrame ==
    (scan # <<>> /\ GameDataPath \in DOMAIN dst_storage) =>
      SpliceFrame(Records(scan[1].br.data), Records(dst_storage[GameDataPath]),
                  Records(src_storage[GameDataPath]), dst_storage[GameDataPath])

\* materials were added to a GameData whose physics table comes before the visual table, after
\* the scan replaced the playfield image and the script ahead of the tables
C5_Witness ==
    /\ pc = "done"
    /\ scan # <<>>
    /\ scan[1].phma_pos < scan[1].mate_pos
    /\ n_material_to_add(scan[1]) > 0
    /\ new_playfield_image # <<>>
    /\ LET rs == Records(src_storage[GameDataPath])
       IN \E i \in 1..Len(rs) : rs[i].tag = T.CODE /\ rs[i].pos < scan[1].phma_pos
    /\ scan[1].br.data # src_storage[GameDataPath]

\* C6: the MAC stream is created after every other stream of the destination, the commit comes
\* after the MAC stream, and once committed nothing is written and the commit is not undone
\* or repeated within the run.
C6_MacThenCommit ==
    /\ [](\A i \in 1..Len(created) : created[i] = MACPath => i = Len(created))
    /\ [](committed => (pc = "done" /\ created # <<>> /\ created[Len(created)] = MACPath))
    /\ [][(committed /\ run' = run) => (committed' /\ UNCHANGED <<dst_storage, created, pc>>)]_vars

\* a committed destination: items, images and copied streams, then the MAC stream
C6_Witness ==
    /\ committed
    /\ Len(created) > 5
    /\ created[Len(created)] = MACPath
    /\ GameDataPath \in SeqToSet(created)

\* a bake result refers to a packmap whose packed-texture file does not exist
MissingPack == \E i \in 1..Len(e.results) : NestmapPath(e, e.results[i].bake_nestmap) \notin e.packfiles

\* C7: when the file of a packmap referenced by a bake result is missing the destination is
\* never committed, and no run that ends cancelled or failed has committed.
C7_MissingPackCancels ==
    /\ MissingPack => ~committed
    /\ result \in {"CANCELLED", "FAILED"} => ~committed

\* C8: when the source has no GameStg/Version or no GameStg/GameData stream the destination is
\* never committed.
C8_MissingStreamAborts ==
    (~exists(src_storage, VersionPath) \/ ~exists(src_storage, GameDataPath)) => ~committed

\* C9 as stated: a source texture is left out of the destination only under remove_all.
C9_OmittedOnlyUnderRemoveAll ==
    \A i \in 0..(n_read_images - 1) : Omitted(i) => e.export_mode = "remove_all"

\* C9: a source texture whose name does not start with 'VLM.' is left out of the destination
\* only under remove_all; under default, hide and remove it is written unchanged.
C9_UserTextureOmittedOnlyUnderRemoveAll ==
    \A i \in 0..(n_read_images - 1) :
      (~StartsWith(SrcImageName(i), S.VLMdot) /\ e.export_mode # "remove_all") =>
        \E k \in 1..Len(image_src) :
          image_src[k] = i /\ dst_storage[ImagePath(k - 1)] = src_storage[ImagePath(i)]

\* under remove an export is over that dropped the only item referring to a texture and kept
\* the texture
C9_Witness ==
    /\ pc = "done"
    /\ e.export_mode = "remove"
    /\ Kept(item_src) < n_read_item
    /\ \E i \in 0..(n_read_images - 1) :
         /\ SrcImageName(i) \in removed_images \ used_images
         /\ i \in SeqToSet(image_src)

ItemKind(d) == RdI32(d, 0)

ItemName(d) ==
    IF HasField(RecordsFrom(d, 4), T.NAME)
    THEN UnWide(SubSeq(FieldOf(RecordsFrom(d, 4), T.NAME), 5, Len(FieldOf(RecordsFrom(d, 4), T.NAME))))
    ELSE S.unknown

KnownKind(d) == ItemKind(d) >= 0 /\ ItemKind(d) < NPrefix

\* the source stream of destination item k (1-based position in item_src), and its destination stream
SrcItem(k) == src_storage[GameItemPath(item_src[k])]

DstItem(k) == dst_storage[GameItemPath(k - 1)]

\* destination item k was written for a source item of a known kind covered by a bake
CoveredItem(k) ==
    /\ item_src[k] >= 0
    /\ KnownKind(SrcItem(k))
    /\ ItemName(SrcItem(k)) \in baked_vpx_objects(e)

\* the visibility and reflection tags of a kind
ForcedTags(kind) ==
    {T.REEN}
      \cup (IF kind = 0 THEN {T.VSBL, T.SVBL} ELSE {})
      \cup (IF kind = 12 \/ kind = 21 THEN {T.RVIS} ELSE {})
      \cup (IF kind = 19 \/ kind = 22 THEN {T.TVIS} ELSE {})
      \cup (IF kind = 20 THEN {T.FVIS} ELSE {})

\* the tags of an item with a patch of their own: the name of the playfield mesh, the bracket
\* of a gate or a spinner whose bracket is baked, the parts of a bumper, the fields of a light
\* or a flasher that is also a baked light
OwnPatchTags(kind, name) ==
    (IF name = S.playfield_mesh /\ e.playfield_col THEN {T.NAME} ELSE {})
      \cup (IF kind = 10 /\ HasBakeObject(e, S.GateBracket \o name) THEN {T.GSUP} ELSE {})
      \cup (IF kind = 11 /\ HasBakeObject(e, S.SpinnerBracket \o name) THEN {T.SSUP} ELSE {})
      \cup (IF kind = 5 THEN {T.CAVI, T.BSVS, T.RIVS, T.SKVS} ELSE {})
      \cup (IF kind = 7 /\ name \in baked_vpx_lights(e) THEN {T.BULT, T.BHHI} ELSE {})
      \cup (IF kind = 20 /\ name \in baked_vpx_lights(e) THEN {T.FHEI} ELSE {})

\* record by record: a forced tag holds false, a tag outside exempt is as in the source
PatchedAs(sr, dr, forced, exempt) ==
    /\ Len(dr) = Len(sr)
    /\ \A i \in 1..Len(sr) :
          /\ dr[i].pos = sr[i].pos
          /\ Len(dr[i].payload) = Len(sr[i].payload)
          /\ sr[i].tag \in forced => (dr[i].tag = sr[i].tag /\ dr[i].payload = BoolBytes(FALSE))
          /\ sr[i].tag \notin (forced \cup exempt) => dr[i] = sr[i]

\* C11: in the destination item written for a source item covered by a bake, the visibility
\* tags of its kind (wall VSBL and SVBL, ramp and rubber RVIS, primitive and hit target TVIS,
\* flasher FVIS) and the reflection tag REEN hold false, every other record is the source's,
\* and no record is deleted
C11_OnlyVisibilityForced ==
    \A k \in 1..Len(item_src) :
        CoveredItem(k) =>
            PatchedAs(RecordsFrom(SrcItem(k), 4), RecordsFrom(DstItem(k), 4),
                      ForcedTags(ItemKind(SrcItem(k))), {})

\* C11 (amended): the same, for every record but the ones with a patch of their own
C11_VisibilityForcedOthersKept ==
    \A k \in 1..Len(item_src) :
        CoveredItem(k) =>
            PatchedAs(RecordsFrom(SrcItem(k), 4), RecordsFrom(DstItem(k), 4),
                      ForcedTags(ItemKind(SrcItem(k))),
                      OwnPatchTags(ItemKind(SrcItem(k)), ItemName(SrcItem(k))))

\* a covered ramp, with a VSBL record that is not a tag of its kind, has been written
C11_Witness ==
    \E k \in 1..Len(item_src) :
        /\ CoveredItem(k)
        /\ ItemKind(SrcItem(k)) = 12
        /\ HasField(RecordsFrom(SrcItem(k), 4), T.RVIS)
        /\ FieldOf(RecordsFrom(SrcItem(k), 4), T.RVIS) = BoolBytes(TRUE)
        /\ FieldOf(RecordsFrom(DstItem(k), 4), T.VSBL) = BoolBytes(TRUE)

\* the visibility tag of each bumper part
PartTags ==
    { <<T.CAVI, "Cap">>, <<T.BSVS, "Base">>, <<T.RIVS, "Ring">>, <<T.SKVS, "Socket">> }

PartBaked(name, part) == \E o \in e.bake_objs : o.vpx_object = name /\ o.vpx_subpart = part

\* C12: in the destination item written for a bumper, the visibility tag of a part (cap CAVI,
\* base BSVS, ring RIVS, skirt SKVS) holds false when a bake object names the bumper with that
\* part (Cap, Base, Ring, Socket), and holds the source value otherwise
C12_BumperPartsForcedIffBaked ==
    \A k \in 1..Len(item_src) :
        (item_src[k] >= 0 /\ ItemKind(SrcItem(k)) = 5) =>
            \A tp \in PartTags :
                HasField(RecordsFrom(SrcItem(k), 4), tp[1]) =>
                    /\ HasField(RecordsFrom(DstItem(k), 4), tp[1])
                    /\ FieldOf(RecordsFrom(DstItem(k), 4), tp[1]) =
                         IF PartBaked(ItemName(SrcItem(k)), tp[2]) THEN BoolBytes(FALSE)
                         ELSE FieldOf(RecordsFrom(SrcItem(k), 4), tp[1])

\* a bumper whose ring alone is baked has been written: ring hidden, cap and base visible
C12_Witness ==
    \E k \in 1..Len(item_src) :
        /\ item_src[k] >= 0
        /\ ItemKind(SrcItem(k)) = 5
        /\ {o.vpx_subpart : o \in {b \in e.bake_objs : b.vpx_object = ItemName(SrcItem(k))}} = {"Ring"}
        /\ FieldOf(RecordsFrom(SrcItem(k), 4), T.RIVS) = BoolBytes(TRUE)
        /\ FieldOf(RecordsFrom(DstItem(k), 4), T.RIVS) = BoolBytes(FALSE)
        /\ FieldOf(RecordsFrom(DstItem(k), 4), T.CAVI) = BoolBytes(TRUE)
        /\ FieldOf(RecordsFrom(DstItem(k), 4), T.BSVS) = BoolBytes(TRUE)

\* C13: a source item whose kind is negative or at least 23, once read, is in the destination
\* exactly once, byte for byte, at the index that was next when it was read, and the item
\* count covers it, under every export mode
C13_UnknownKindCopied ==
    /\ n_game_items = Len(item_src)
    /\ \A i \in 0..(n_read_item - 1) :
          (exists(src_storage, GameItemPath(i)) /\ ~KnownKind(src_storage[GameItemPath(i)])) =>
              /\ Cardinality({k \in 1..Len(item_src) : item_src[k] = i}) = 1
              /\ \A k \in 1..Len(item_src) :
                    item_src[k] = i =>
                        /\ k <= n_game_items
                        /\ exists(dst_storage, GameItemPath(k - 1))
                        /\ DstItem(k) = src_storage[GameItemPath(i)]
                        /\ Cardinality({j \in 1..(k - 1) : item_src[j] >= 0})
                             = Cardinality({j \in 0..(i - 1) : j \in SeqToSet(item_src)})

\* an export under remove_all is over, and an item of unknown kind was written after an
\* item was dropped, at an index lower than its source index
C13_Witness ==
    \E k \in 1..Len(item_src) :
        /\ item_src[k] >= k
        /\ ~KnownKind(SrcItem(k))
        /\ DstItem(k) = SrcItem(k)
        /\ e.export_mode = "remove_all"
        /\ pc = "done"

\* source item i is of a known kind and the item loop classifies it as dropped
Dropped(i) ==
    /\ KnownKind(src_storage[GameItemPath(i)])
    /\ ProcessItem(src_storage[GameItemPath(i)], e, TRUE, {}, {}).remove

\* what is true of the items read so far: no destination stream was created twice, the source
\* indices of the written items increase, and a read item is written unless it is dropped
ItemsWrittenOnce ==
    /\ \A a, b \in 1..Len(created) : a # b => created[a] # created[b]
    /\ Increasing(item_src)
    /\ \A k \in 1..Len(item_src) : item_src[k] < n_read_item
    /\ \A i \in 0..(n_read_item - 1) :
          exists(src_storage, GameItemPath(i)) =>
              (Cardinality({k \in 1..Len(item_src) : item_src[k] = i}) = IF Dropped(i) THEN 0 ELSE 1)

\* what a step of an export does: it leaves the source as it is, it reads no item or the next
\* item, it writes a source item only as it reads it, and it leaves the written streams alone
ItemReadInOrder ==
    /\ src_storage' = src_storage
    /\ n_read_item' = n_read_item \/ (n_read_item' = n_read_item + 1
                                        /\ exists(src_storage, GameItemPath(n_read_item)))
    /\ \/ item_src' = item_src
       \/ item_src' = Append(item_src, -1)
       \/ item_src' = Append(item_src, n_read_item) /\ n_read_item' = n_read_item + 1
    /\ \A q \in DOMAIN dst_storage : q \in DOMAIN dst_storage' /\ dst_storage'[q] = dst_storage[q]

\* C14: the source items are read one by one in increasing index order, each is written to the
\* destination when it is read and only then, once when it is kept and never when it is
\* dropped, and no step of an export changes the source container
C14_ReadOnceWrittenOnce ==
    /\ []ItemsWrittenOnce
    /\ [][run' = run => ItemReadInOrder]_vars

\* an export is over that read three items, dropped one and kept one of a known kind
C14_Witness ==
    /\ pc = "done"
    /\ n_read_item >= 3
    /\ \E i \in 0..(n_read_item - 1) : Dropped(i)
    /\ \E k \in 1..Len(item_src) : item_src[k] >= 0 /\ KnownKind(SrcItem(k))

(***************************************************************************)
(* The digest, computed again from streams read back                       *)
(***************************************************************************)
\* what a record-structured stream feeds: tag and payload of each record, and for the CODE
\* record the tag and the string (its payload without the 4 bytes of the string length)
RECURSIVE FeedOfRecords(_)
FeedOfRecords(rs) ==
    IF rs = <<>> THEN <<>>
    ELSE Head(rs).tag
           \o (IF Head(rs).tag = T.CODE THEN SubSeq(Head(rs).payload, 5, Len(Head(rs).payload))
               ELSE Head(rs).payload)
           \o FeedOfRecords(Tail(rs))

FeedOf(d, mode) == IF mode = 0 THEN d ELSE FeedOfRecords(Records(d))

\* the names of the CUST records of a custom info index
CustomOf(d) ==
    [i \in 1..Cardinality({j \in 1..Len(Records(d)) : Records(d)[j].tag = T.CUST}) |->
        SubSeq(FieldOf(SubSeq(Records(d),
                              CHOOSE j \in 1..Len(Records(d)) :
                                  /\ Records(d)[j].tag = T.CUST
                                  /\ Cardinality({h \in 1..j : Records(d)[h].tag = T.CUST}) = i,
                              Len(Records(d))), T.CUST), 5,
               Len(FieldOf(SubSeq(Records(d),
                              CHOOSE j \in 1..Len(Records(d)) :
                                  /\ Records(d)[j].tag = T.CUST
                                  /\ Cardinality({h \in 1..j : Records(d)[h].tag = T.CUST}) = i,
                              Len(Records(d))), T.CUST)))]

\* the custom info streams of a storage, in the order of the index
RECURSIVE FeedOfCustom(_, _)
FeedOfCustom(storage, names) ==
    IF names = <<>> THEN <<>>
    ELSE (IF exists(storage, CustomDstPath(Head(names))) THEN storage[CustomDstPath(Head(names))]
          ELSE <<>>)
           \o FeedOfCustom(storage, Tail(names))

\* the bytes the streams of storage feed, for the entries fs of a stream list; custom tells
\* whether the custom info streams are fed after their index
RECURSIVE FeedOfStreams(_, _, _)
FeedOfStreams(storage, fs, custom) ==
    IF fs = <<>> THEN <<>>
    ELSE (IF Head(fs).hashed /\ exists(storage, Head(fs).path)
          THEN FeedOf(storage[Head(fs).path], Head(fs).mode)
          ELSE <<>>)
           \o (IF custom /\ Head(fs).path = CustomInfoPath /\ exists(storage, CustomInfoPath)
               THEN FeedOfCustom(storage, CustomOf(storage[CustomInfoPath]))
               ELSE <<>>)
           \o FeedOfStreams(storage, Tail(fs), custom)

\* C15: when the digest is taken, the hash has been fed the seed and then, in the order of the
\* stream list, what each stream flagged hashed feeds (all the bytes of an unstructured
\* stream; tag and payload of each record of a structured one; tag and string of the CODE
\* record), and nothing else
C15_HashFedByFlaggedStreams ==
    pc \in {"mac", "done"} =>
        data_hash = S.VisualPinball \o FeedOfStreams(dst_storage, FileStructure(src_storage), FALSE)

\* C15 (amended): the same, with the custom info streams fed after the custom info index
C15_HashFedByFlaggedAndCustomStreams ==
    pc \in {"mac", "done"} =>
        data_hash = S.VisualPinball \o FeedOfStreams(dst_storage, FileStructure(src_storage), TRUE)

\* a digest was taken over a GameData with a script, a stream that is not hashed is in the
\* destination, and a custom info stream was fed
C15_Witness ==
    /\ pc = "done"
    /\ exists(dst_storage, GameDataPath)
    /\ Len(FieldOf(Records(dst_storage[GameDataPath]), T.CODE)) > 4
    /\ exists(dst_storage, P_TableInfo \o N.TableSaveDate)
    /\ \E i \in 1..Len(CustomOf(dst_storage[CustomInfoPath])) :
          exists(dst_storage, CustomDstPath(CustomOf(dst_storage[CustomInfoPath])[i]))

\* C16: the MAC stream holds the digest of the destination: the seed, then what the hashed
\* streams of the destination feed, GameData as patched, each custom info stream after the index
C16_MacIsDigestOfDestination ==
    pc \in {"mac", "done"} =>
        dst_storage[MACPath] =
            S.VisualPinball \o FeedOfStreams(dst_storage, FileStructure(dst_storage), TRUE)

\* a destination is committed whose GameData differs from the source's
C16_Witness ==
    /\ pc = "done"
    /\ exists(dst_storage, GameDataPath)
    /\ dst_storage[GameDataPath] # src_storage[GameDataPath]
    /\ exists(dst_storage, MACPath)

\* the image streams of the destination named name
ImagesNamed(name) ==
    {n \in ImageIdx : /\ HasField(Records(dst_storage[ImagePath(n)]), T.NAME)
                      /\ FieldOf(Records(dst_storage[ImagePath(n)]), T.NAME) = WString(name)}

\* C17: in a committed destination, each packmap index a bake result refers to has exactly one
\* image stream named 'VLM.Packmap<n>', and its DATA record holds the bytes of the packmap file
C17_OnePackmapPerIndex ==
    pc = "done" =>
        \A i \in 1..Len(e.results) :
            /\ Cardinality(ImagesNamed(PackmapName(e.results[i].bake_nestmap))) = 1
            /\ \A n \in ImagesNamed(PackmapName(e.results[i].bake_nestmap)) :
                  FieldOf(Records(dst_storage[ImagePath(n)]), T.DATA)
                    = FileBytes(NestmapPath(e, e.results[i].bake_nestmap))

\* the payload of the first record with the given tag from position p on (<<>> without one)
RECURSIVE FieldFrom(_, _, _)
FieldFrom(d, p, tag) ==
    IF p + 8 > Len(d) THEN <<>>
    ELSE IF Slice(d, p + 4, 4) = tag THEN Slice(d, p + 8, RdU32(d, p) - 4)
    ELSE IF Slice(d, p + 4, 4) = T.ENDB THEN <<>>
    ELSE FieldFrom(d, p + 4 + RdU32(d, p), tag)

\* the synthesized primitives of the destination: positions in item_src
Primitives == {k \in 1..Len(item_src) : item_src[k] = -1 /\ ItemKind(DstItem(k)) = 19}

\* the primitives written for the bake result obj (M3DN holds 'VLM.' and its name)
PrimitivesOf(obj) ==
    {k \in Primitives : FieldFrom(DstItem(k), 4, <<77,51,68,78>>) = WString(S.VLMdot \o obj.name)}

MaterialOf(obj) ==
    IF obj.bake_type = "lightmap" THEN S.Lightmap
    ELSE IF obj.bake_type = "active" THEN S.BakeActive
    ELSE S.BakeSolid

\* C18: when the loop over the bake results ends, and when the destination is committed, the
\* destination holds as many synthesized primitives as there are bake results, one for each,
\* with the material of its kind of bake: 'VLM.Lightmap', 'VLM.Bake.Active' or 'VLM.Bake.Solid'
C18_OnePrimitivePerResult ==
    (bake_i > Len(e.results) /\ pc \in {"bakes", "done"}) =>
        /\ Cardinality(Primitives) = Len(e.results)
        /\ \A i \in 1..Len(e.results) :
              /\ Cardinality(PrimitivesOf(e.results[i])) = 1
              /\ \A k \in PrimitivesOf(e.results[i]) :
                    FieldFrom(DstItem(k), 4, <<77,65,84,82>>) = WString(MaterialOf(e.results[i]))

\* an export with a static, an active and a lightmap bake is over
C18_Witness ==
    /\ pc = "done"
    /\ {e.results[i].bake_type : i \in 1..Len(e.results)} = {"static", "active", "lightmap"}
    /\ Cardinality(Primitives) = 3

(***************************************************************************)
(* The mesh read back                                                      *)
(***************************************************************************)
\* the index buffer without the two bytes that zlib puts first
Inflated(b) == SubSeq(b, 3, Len(b))

\* the indices of a buffer of 16-bit or 32-bit little-endian integers
Indices16(b) == [j \in 1..(Len(b) \div 2) |-> b[2 * j - 1] + 256 * b[2 * j]]

Indices32(b) == [j \in 1..(Len(b) \div 4) |-> RdU32(b, 4 * (j - 1))]

\* C19: the index buffer of a mesh with fewer than 65536 vertices holds two bytes for each
\* index, that of a mesh with 65536 vertices or more holds four, and in both cases the
\* buffer read back with that width gives the indices
C19_IndexWidth ==
    (mesh_in # <<>> /\ mesh_in.kind = "counted" /\ mesh_out.records # <<>>) =>
        IF mesh_in.n_vertices < 65536
        THEN /\ Len(Inflated(mesh_out.records[1])) = 2 * Len(mesh_in.indices)
             /\ Indices16(Inflated(mesh_out.records[1])) = mesh_in.indices
        ELSE /\ Len(Inflated(mesh_out.records[1])) = 4 * Len(mesh_in.indices)
             /\ Indices32(Inflated(mesh_out.records[1])) = mesh_in.indices

\* the index buffer of a mesh with 65535 vertices, whose triangle uses the last vertex, has
\* been encoded with two bytes for each index
C19_Witness ==
    /\ mesh_in # <<>>
    /\ mesh_in.kind = "counted"
    /\ mesh_out.records # <<>>
    /\ mesh_in.n_vertices = 65535
    /\ mesh_in.indices = <<65534, 256, 0>>
    /\ Len(Inflated(mesh_out.records[1])) = 6

\* the triangles among the polygons of a mesh
Triangles(polys) == SelectSeq(polys, LAMBDA q : Len(q) = 3)

\* C20: the vertex list of a mesh holds each attribute tuple of a triangle corner once and
\* nothing else, M3VN is its length, each index is below that length and points to the
\* tuple of its corner (the corners of a triangle are taken in reverse), M3FN is 3 times the
\* number of triangles, and a polygon that is not a triangle adds nothing
C20_DeduplicatedMesh ==
    (mesh_in # <<>> /\ mesh_in.kind = "polys" /\ mesh_out.mesh # <<>>) =>
        /\ \A a, b \in 1..Len(mesh_out.mesh[1].vertices) :
              a # b => mesh_out.mesh[1].vertices[a] # mesh_out.mesh[1].vertices[b]
        /\ SeqToSet(mesh_out.mesh[1].vertices)
             = UNION {SeqToSet(Triangles(mesh_in.polys)[t]) : t \in 1..Len(Triangles(mesh_in.polys))}
        /\ Len(mesh_out.mesh[1].indices) = 3 * Len(Triangles(mesh_in.polys))
        /\ \A t \in 1..Len(Triangles(mesh_in.polys)) : \A c \in 1..3 :
              /\ mesh_out.mesh[1].indices[3 * (t - 1) + c] < Len(mesh_out.mesh[1].vertices)
              /\ mesh_out.mesh[1].vertices[mesh_out.mesh[1].indices[3 * (t - 1) + c] + 1]
                   = Triangles(mesh_in.polys)[t][4 - c]
        /\ mesh_out.records # <<>> =>
              /\ FieldU32(Records(mesh_out.records[1]), <<77,51,86,78>>) = Len(mesh_out.mesh[1].vertices)
              /\ FieldU32(Records(mesh_out.records[1]), <<77,51,70,78>>)
                   = 3 * Len(Triangles(mesh_in.polys))

\* a mesh of two triangles that share two corners, and of a quad, has been encoded
C20_Witness ==
    /\ mesh_in # <<>>
    /\ mesh_in.kind = "polys"
    /\ mesh_in.polys = << <<0, 1, 2>>, <<2, 1, 3>> >>
    /\ mesh_out.records # <<>>
    /\ Len(mesh_out.mesh[1].vertices) = 4
    /\ mesh_out.mesh[1].indices = <<0, 1, 2, 3, 1, 0>>

(***************************************************************************)
(* The script of the source and of the destination                         *)
(***************************************************************************)
\* the lines of the script held by the CODE record of a GameData stream
ScriptOf(d) == SubSeq(FieldOf(Records(d), T.CODE), 5, Len(FieldOf(Records(d), T.CODE)))

SrcScript == ScriptOf(src_storage[GameDataPath])

DstScript == ScriptOf(dst_storage[GameDataPath])

\* the lines of the first routine that starts with the line head, between that line and the
\* next End Sub
RoutineBody(script, head) ==
    LET i == CHOOSE a \in 1..Len(script) : script[a] = head /\ \A b \in 1..(a - 1) : script[b] # head
        ends == {a \in (i + 1)..Len(script) : script[a] = L.EndSub}
        j == IF ends = {} THEN Len(script) + 1 ELSE CHOOSE a \in ends : \A b \in ends : a <= b
    IN SubSeq(script, i + 1, j - 1)

\* the updates wanted for the bake results, once the items have been read
Desired == UpdatesOf(e.results, e, table_lights, table_flashers)

\* line l is the managed statement of update u
StatementFor(l, u) ==
    IF u[2] = 2 THEN l = L_Visible(u[3])
    ELSE IsUpd(l) /\ UpdMode(l) = u[2] /\ UpdVpx(l) = u[1] /\ UpdObj(l) = u[3]

HasTimerRoutine ==
    /\ exists(src_storage, GameDataPath)
    /\ L.SubTimer \in SeqToSet(SrcScript)

\* C21: when the source script holds the routine VLMTimer_Timer, that routine of the patched
\* script holds exactly one managed statement for each desired update and every line of the
\* source routine that is not a managed statement
C21_RoutineHoldsDesiredStatements ==
    (HasTimerRoutine /\ exists(dst_storage, GameDataPath)) =>
        /\ \A i \in 1..Len(Desired) :
              Cardinality({a \in 1..Len(RoutineBody(DstScript, L.SubTimer)) :
                             StatementFor(RoutineBody(DstScript, L.SubTimer)[a], Desired[i])}) = 1
        /\ \A a \in 1..Len(RoutineBody(SrcScript, L.SubTimer)) :
              ~IsUpd(RoutineBody(SrcScript, L.SubTimer)[a]) =>
                  RoutineBody(SrcScript, L.SubTimer)[a] \in SeqToSet(RoutineBody(DstScript, L.SubTimer))

\* C22: in the patched script each of the routines VLMTimer_Timer, VLMLampzHelper and
\* VLMMovableHelper is defined exactly once
C22_EachRoutineDefinedOnce ==
    exists(dst_storage, GameDataPath) =>
        \A h \in {L.SubTimer, L.SubLampz, L.SubMovable} : Count(DstScript, h) = 1

\* the lines of the source routine that are managed statements for the light or flasher of a
\* desired update
MatchedStatements ==
    {a \in 1..Len(RoutineBody(SrcScript, L.SubTimer)) :
        /\ MatchesUpd(RoutineBody(SrcScript, L.SubTimer)[a])
        /\ UpdVpx(RoutineBody(SrcScript, L.SubTimer)[a]) # 0
        /\ \E i \in 1..Len(Desired) : Desired[i][1] = UpdVpx(RoutineBody(SrcScript, L.SubTimer)[a])}

\* C23: when a managed statement of the source routine matches a desired update the export
\* does not fail, and the patched script holds a statement for that light or flasher with the
\* intensity of the source statement
C23_MatchedStatementKeepsIntensity ==
    (HasTimerRoutine /\ MatchedStatements # {}) =>
        /\ pc # "failed"
        /\ exists(dst_storage, GameDataPath) =>
              \A a \in MatchedStatements : \E b \in 1..Len(DstScript) :
                  /\ IsUpd(DstScript[b])
                  /\ UpdVpx(DstScript[b]) = UpdVpx(RoutineBody(SrcScript, L.SubTimer)[a])
                  /\ UpdIntensity(DstScript[b]) = UpdIntensity(RoutineBody(SrcScript, L.SubTimer)[a])

(***************************************************************************)
(* The items that are dropped                                              *)
(***************************************************************************)
\* source item i has been read and has not been written to the destination
WasDropped(i) == i < n_read_item /\ i \notin SeqToSet(item_src)

\* the collidable and toy flags of an item, read from its records wherever they stand
Collidable(d) ==
    \A a \in 1..Len(RecordsFrom(d, 4)) :
        RecordsFrom(d, 4)[a].tag \in {T.CLDR, T.CLDW} => RecordsFrom(d, 4)[a].payload # <<0, 0, 0, 0>>

Toy(d) ==
    \E a \in 1..Len(RecordsFrom(d, 4)) :
        RecordsFrom(d, 4)[a].tag = T.ISTO /\ RecordsFrom(d, 4)[a].payload # <<0, 0, 0, 0>>

ReadItems == {i \in 0..(n_read_item - 1) : KnownKind(src_storage[GameItemPath(i)])}

\* C24: a source item of known kind is dropped exactly when its name starts with 'VLM.' or is
\* 'VLMTimer', or the mode is remove or remove_all and the item is covered by a bake and is
\* not both collidable and not a toy
C24_DroppedIffRule ==
    \A i \in ReadItems :
        WasDropped(i) <=>
            \/ StartsWith(ItemName(src_storage[GameItemPath(i)]), S.VLMdot)
            \/ ItemName(src_storage[GameItemPath(i)]) = S.VLMTimer
            \/ /\ e.export_mode \in {"remove", "remove_all"}
               /\ ItemName(src_storage[GameItemPath(i)]) \in baked_vpx_objects(e)
               /\ ~(Collidable(src_storage[GameItemPath(i)]) /\ ~Toy(src_storage[GameItemPath(i)]))

\* C29: under remove and remove_all a baked item flagged as a toy is dropped, in whatever
\* order its collidable and toy records stand
C29_BakedToyDropped ==
    \A i \in ReadItems :
        ( /\ e.export_mode \in {"remove", "remove_all"}
          /\ ItemName(src_storage[GameItemPath(i)]) \in baked_vpx_objects(e)
          /\ Toy(src_storage[GameItemPath(i)]) ) => WasDropped(i)

\* C25: once the streams are copied, every stream of the source TableInfo storage named by a
\* CUST record of the source CustomInfoTags is in the destination TableInfo storage under the
\* same name with the same bytes, and the hash was fed those bytes right after CustomInfoTags
C25_CustomStreamsCopiedAndHashed ==
    (pc \in {"mac", "done"} /\ exists(src_storage, CustomInfoPath)) =>
        /\ \A i \in 1..Len(CustomOf(src_storage[CustomInfoPath])) :
              exists(src_storage, P_TableInfo \o CustomOf(src_storage[CustomInfoPath])[i]) =>
                  /\ exists(dst_storage, P_TableInfo \o CustomOf(src_storage[CustomInfoPath])[i])
                  /\ dst_storage[P_TableInfo \o CustomOf(src_storage[CustomInfoPath])[i]]
                       = src_storage[P_TableInfo \o CustomOf(src_storage[CustomInfoPath])[i]]
        /\ data_hash = S.VisualPinball \o FeedOfStreams(dst_storage, FileStructure(src_storage), TRUE)

(***************************************************************************)
(* Items that no bake covers                                               *)
(***************************************************************************)
\* the name is in neither name list, no bake object refers to it as the part of a bumper or as
\* the bracket of a gate or spinner, and it is not the playfield mesh
Unbaked(name) ==
    /\ \A o \in e.bake_objs : o.movable \/ name \notin SeqToSet(Split(o.vpx_object))
    /\ \A o \in e.light_objs : name \notin SeqToSet(Split(o.vpx_object))
    /\ \A o \in e.bake_objs : o.vpx_object = name => o.vpx_subpart \notin {"Cap", "Base", "Ring", "Socket"}
    /\ \A o \in e.bake_objs : o.name \notin {S.GateBracket \o name, S.SpinnerBracket \o name}
    /\ name # S.playfield_mesh

\* C26: a source item of known kind that is kept and that no bake covers is written to the
\* destination with the bytes it has in the source, in every export mode
C26_UnbakedItemIdentical ==
    \A k \in 1..Len(item_src) :
        (item_src[k] >= 0 /\ KnownKind(SrcItem(k)) /\ Unbaked(ItemName(SrcItem(k)))) =>
            DstItem(k) = SrcItem(k)

\* unbaked items with visibility and reflection records (a bumper, a ramp) have been written
\* under mode hide, next to baked items
C26_Witness ==
    /\ pc = "done"
    /\ e.export_mode = "hide"
    /\ \E k \in 1..Len(item_src) :
          /\ item_src[k] >= 0
          /\ ItemKind(SrcItem(k)) = 5
          /\ Unbaked(ItemName(SrcItem(k)))
          /\ HasField(RecordsFrom(SrcItem(k), 4), T.REEN)
          /\ DstItem(k) = SrcItem(k)
    /\ \E k \in 1..Len(item_src) :
          /\ item_src[k] >= 0
          /\ ItemKind(SrcItem(k)) = 12
          /\ Unbaked(ItemName(SrcItem(k)))
    /\ \E k \in 1..Len(item_src) : item_src[k] >= 0 /\ DstItem(k) # SrcItem(k)

(***************************************************************************)
(* The framing of a patched item                                           *)
(***************************************************************************)
\* the length prefix and the tag of each record of an item from position p on, in order
RECURSIVE FramingFrom(_, _)
FramingFrom(d, p) ==
    IF p + 8 > Len(d) THEN <<>>
    ELSE <<Slice(d, p, 8)>>
           \o (IF Slice(d, p + 4, 4) = T.ENDB \/ RdU32(d, p) < 4 THEN <<>>
               ELSE FramingFrom(d, p + 4 + RdU32(d, p)))

Framing(d) == FramingFrom(d, 4)

\* C27: a source item of known kind that is kept is written with the length it has in the
\* source and with the same record length prefixes and tags in the same order
C27_PatchKeepsFraming ==
    \A k \in 1..Len(item_src) :
        (item_src[k] >= 0 /\ KnownKind(SrcItem(k))) =>
            /\ Len(DstItem(k)) = Len(SrcItem(k))
            /\ Framing(DstItem(k)) = Framing(SrcItem(k))

\* C28: when no bake result is a playfield bake, the playfield image record (IMAG) and the
\* playfield material record (PLMA) of the destination GameData are those of the source
C28_PlayfieldRecordsKept ==
    ( /\ exists(src_storage, GameDataPath)
      /\ exists(dst_storage, GameDataPath)
      /\ \A i \in 1..Len(e.results) : ~IsPlayfieldBake(e.results[i], e) ) =>
        /\ FieldOf(Records(dst_storage[GameDataPath]), T.IMAG)
             = FieldOf(Records(src_storage[GameDataPath]), T.IMAG)
        /\ FieldOf(Records(dst_storage[GameDataPath]), T.PLMA)
             = FieldOf(Records(src_storage[GameDataPath]), T.PLMA)

====
